---- MODULE Spec2Model ----
(***************************************************************************)
(* A model of the layout-aware scraper: the locator strategy generator and *)
(* the action executor (core/action_executor.py), the browser pool         *)
(* (core/browser_pool.py) and the session loop (main.py).                  *)
(*                                                                         *)
(* Text is modelled as sequences of one-character strings, so that split,  *)
(* strip, lower, slicing and substring tests are computed as Python        *)
(* computes them; a locator expression is the TLA+ string obtained by      *)
(* concatenating its parts, so two expressions are equal exactly when the  *)
(* Python strings are.  Confidences are integers in hundredths.            *)
(***************************************************************************)
EXTENDS Integers, Sequences, FiniteSets, TLC

(***************************************************************************)
(* Text helpers (Python str operations used by the generator)              *)
(***************************************************************************)
Uppers == <<"A","B","C","D","E","F","G","H","I","J","K","L","M",
            "N","O","P","Q","R","S","T","U","V","W","X","Y","Z">>

Lowers == <<"a","b","c","d","e","f","g","h","i","j","k","l","m",
            "n","o","p","q","r","s","t","u","v","w","x","y","z">>

Range(s) == {s[i] : i \in DOMAIN s}

Min(a, b) == IF a <= b THEN a ELSE b

Max(a, b) == IF a >= b THEN a ELSE b

Take(s, n) == SubSeq(s, 1, Min(n, Len(s)))

RECURSIVE Flatten(_)
Flatten(ss) == IF Len(ss) = 0 THEN <<>> ELSE Head(ss) \o Flatten(Tail(ss))

\* str(...) of a character sequence: the TLA+ string with these characters
RECURSIVE Join(_)
Join(cs) == IF Len(cs) = 0 THEN "" ELSE Head(cs) \o Join(Tail(cs))

IsUpper(c) == c \in Range(Uppers)

LowerChar(c) ==
    IF IsUpper(c) THEN Lowers[CHOOSE i \in DOMAIN Uppers : Uppers[i] = c] ELSE c

\* str.lower()
Lower(cs) == [i \in 1..Len(cs) |-> LowerChar(cs[i])]

\* needle in hay
Contains(hay, needle) ==
    \E i \in 1..(Len(hay) - Len(needle) + 1) :
        SubSeq(hay, i, i + Len(needle) - 1) = needle

\* str.split(): maximal runs of non-blank characters
RECURSIVE SplitFrom(_, _, _)
SplitFrom(cs, i, cur) ==
    IF i > Len(cs)
    THEN (IF Len(cur) = 0 THEN <<>> ELSE <<cur>>)
    ELSE IF cs[i] = " "
         THEN (IF Len(cur) = 0 THEN <<>> ELSE <<cur>>) \o SplitFrom(cs, i + 1, <<>>)
         ELSE SplitFrom(cs, i + 1, Append(cur, cs[i]))

Split(cs) == SplitFrom(cs, 1, <<>>)

\* the characters of '.,!?;:"()[]{}'
StripChars == {".", ",", "!", "?", ";", ":", "\"", "(", ")", "[", "]", "{", "}"}

RECURSIVE LStrip(_)
LStrip(w) == IF Len(w) > 0 /\ Head(w) \in StripChars THEN LStrip(Tail(w)) ELSE w

RECURSIVE RStrip(_)
RStrip(w) ==
    IF Len(w) > 0 /\ w[Len(w)] \in StripChars
    THEN RStrip(SubSeq(w, 1, Len(w) - 1)) ELSE w

\* word.strip('.,!?;:"()[]{}')
Strip(w) == RStrip(LStrip(w))

\* s.replace(" ", "").replace("-", "")
RemoveBlanksAndHyphens(cs) == SelectSeq(cs, LAMBDA c : c \notin {" ", "-"})

(***************************************************************************)
(* SelectorStrategy and the fixed lookup tables                            *)
(***************************************************************************)
SelectorStrategy(selector, confidence, category) ==
    [selector |-> selector, confidence |-> confidence, category |-> category]

context_map ==
    [navigation |-> <<"nav", "[role='navigation']", ".navigation", ".nav", "header nav">>,
     header     |-> <<"header", ".header", "[role='banner']", "header nav", ".site-header">>,
     sidebar    |-> <<".sidebar", ".side-nav", "[role='complementary']", "aside">>,
     main       |-> <<"main", "[role='main']", ".main-content", ".content">>,
     footer     |-> <<"footer", ".footer", "[role='contentinfo']", ".site-footer">>,
     form       |-> <<"form", ".form", "[role='form']">>,
     menu       |-> <<".menu", "[role='menu']", ".dropdown-menu", ".nav-menu">>,
     tab        |-> <<".tabs", "[role='tablist']", ".tab-container">>,
     page       |-> <<"body", "main", ".page">>]

type_map ==
    [button   |-> <<"button", "[role='button']", "input[type='button']", "input[type='submit']">>,
     link     |-> <<"a", "[role='link']">>,
     tab      |-> <<"[role='tab']", ".tab", "a[role='tab']">>,
     input    |-> <<"input", "textarea", "[contenteditable]">>,
     checkbox |-> <<"input[type='checkbox']", "[role='checkbox']">>,
     radio    |-> <<"input[type='radio']", "[role='radio']">>,
     select   |-> <<"select", "[role='listbox']">>,
     menu     |-> <<"[role='menuitem']", ".menu-item">>,
     unknown  |-> <<"*">>]

\* _get_context_selectors(context_area, modifiers)
GetContextSelectors(context_area, modifiers) ==
    LET key == Join(Lower(context_area))
        selectors == IF key \in DOMAIN context_map THEN context_map[key] ELSE <<"body">>
    IN  IF <<"m","a","i","n">> \in Range(modifiers) /\ context_area # <<"m","a","i","n">>
        THEN [i \in 1..Len(selectors) |-> "main " \o selectors[i]] \o selectors
        ELSE selectors

\* _get_element_type_selectors(element_type)
GetElementTypeSelectors(element_type) ==
    LET key == Join(Lower(element_type))
    IN  IF key \in DOMAIN type_map THEN type_map[key] ELSE <<"*">>

(***************************************************************************)
(* The locator strategy generator                                          *)
(*                                                                         *)
(* A fallible operation returns a record with raised (an exception left    *)
(* it) and error (the exception's text).  components is the helper's       *)
(* decomposition: target_text, element_type, context_area, modifiers,      *)
(* alternative_text, and context_null for a reply whose context_area is    *)
(* JSON null.  A description is [is_str, text]: is_str = FALSE is a value  *)
(* that is not a str (None).                                               *)
(***************************************************************************)
Returned(strategies) == [raised |-> FALSE, error |-> "", strategies |-> strategies]

Raised(error) == [raised |-> TRUE, error |-> error, strategies |-> <<>>]

HasText(elem_sel, text) == elem_sel \o ":has-text('" \o Join(text) \o "')"

\* Strategy 5 of _generate_selectors_from_components: a plausible slip makes
\* the confidence of a partial match depend on the length of the text
PartialTextStrategiesByLength(element_selectors, target_text) ==
    IF Len(target_text) > 3
    THEN [i \in 1..Len(element_selectors) |->
            SelectorStrategy(
                HasText(element_selectors[i], SubSeq(target_text, 1, Len(target_text) \div 2)),
                IF Len(target_text) > 5 THEN 65 ELSE 60, "semantic_partial")]
    ELSE <<>>

\* Strategy 5: partial text matching, only for text longer than 3 characters
PartialTextStrategies(element_selectors, target_text) ==
    IF Len(target_text) > 3
    THEN [i \in 1..Len(element_selectors) |->
            SelectorStrategy(
                HasText(element_selectors[i], SubSeq(target_text, 1, Len(target_text) \div 2)),
                65, "semantic_partial")]
    ELSE <<>>

\* _generate_selectors_from_components(components)
GenerateSelectorsFromComponents(components) ==
    LET target_text == components.target_text
        element_type == components.element_type
    IN  IF Len(target_text) = 0 THEN Returned(<<>>)
        ELSE IF components.context_null
        THEN Raised("'NoneType' object has no attribute 'lower'")
        ELSE
        LET context_selectors ==
                GetContextSelectors(components.context_area, components.modifiers)
            element_selectors == GetElementTypeSelectors(element_type)
            ctx2 == Take(context_selectors, 2)
            elem2 == Take(element_selectors, 2)
            alts == components.alternative_text
            precise == Flatten([i \in 1..Len(ctx2) |-> [j \in 1..Len(elem2) |->
                SelectorStrategy(ctx2[i] \o " " \o HasText(elem2[j], target_text),
                                 95, "semantic_precise")]])
            element == [i \in 1..Len(element_selectors) |->
                SelectorStrategy(HasText(element_selectors[i], target_text),
                                 85, "semantic_element")]
            context == [i \in 1..Len(context_selectors) |->
                SelectorStrategy(context_selectors[i] \o " " \o HasText("*", target_text),
                                 75, "semantic_context")]
            alternative == Flatten([a \in 1..Len(alts) |-> [j \in 1..Len(elem2) |->
                SelectorStrategy(HasText(elem2[j], alts[a]), 70, "semantic_alternative")]])
            partial == PartialTextStrategies(element_selectors, target_text)
            attribute ==
                IF element_type = <<"l","i","n","k">>
                THEN <<SelectorStrategy(
                        "a[href*='" \o Join(RemoveBlanksAndHyphens(Lower(target_text))) \o "']",
                        70, "semantic_attribute")>>
                ELSE <<>>
        IN  Returned(precise \o element \o context \o alternative \o partial \o attribute)

\* the capitalized tokens of the description (potential_texts)
\* a slip that keeps only the words longer than 4 characters
PotentialTextsLongWords(text) ==
    LET words == Split(text)
        clean == [i \in 1..Len(words) |-> Strip(words[i])]
        keep(w) == Len(w) > 4 /\ IsUpper(w[1])
    IN  SelectSeq(clean, keep)

PotentialTexts(text) ==
    LET words == Split(text)
        clean == [i \in 1..Len(words) |-> Strip(words[i])]
        keep(w) == Len(w) > 2
                   /\ (IsUpper(w[1])
                       \/ w \in {<<"D","i","s","c","u","s","s","i","o","n">>,
                                 <<"D","i","s","c","u","s","s","i","o","n","s">>})
    IN  SelectSeq(clean, keep)

\* _generate_fallback_selectors(description)
GenerateFallbackSelectors(description) ==
    IF ~description.is_str
    THEN Raised("'NoneType' object has no attribute 'lower'")
    ELSE
    LET desc_lower == Lower(description.text)
        potential_texts == PotentialTexts(description.text)
        forEach(prefix, confidence, category) ==
            [i \in 1..Len(potential_texts) |->
                SelectorStrategy(prefix \o ":has-text('" \o Join(potential_texts[i]) \o "')",
                                 confidence, category)]
        tabs == IF \E k \in {<<"t","a","b">>, <<"t","a","b","s">>} : Contains(desc_lower, k)
                THEN forEach("[role='tab']", 60, "fallback_tab") ELSE <<>>
        buttons == IF \E k \in {<<"b","u","t","t","o","n">>, <<"b","t","n">>} :
                        Contains(desc_lower, k)
                   THEN forEach("button", 60, "fallback_button") ELSE <<>>
        links == IF \E k \in {<<"l","i","n","k">>, <<"h","r","e","f">>} :
                        Contains(desc_lower, k)
                 THEN forEach("a", 60, "fallback_link") ELSE <<>>
        generic == [i \in 1..Len(potential_texts) |->
            SelectorStrategy("*:has-text('" \o Join(potential_texts[i])
                                \o "'):not(body):not(html)", 40, "fallback_generic")]
    IN  Returned(tabs \o buttons \o links \o generic)

\* _parse_description_with_llm(description), llm being the helper's reply:
\* [ok |-> TRUE, components |-> c], or [ok |-> FALSE] when the call or the
\* decoding of its reply raises; the handler then builds a minimal structure
ParseDescriptionWithLLM(description, llm) ==
    IF llm.ok THEN [raised |-> FALSE, error |-> "", components |-> llm.components]
    ELSE IF ~description.is_str
    THEN [raised |-> TRUE, error |-> "'NoneType' object has no attribute 'split'",
          components |-> <<>>]
    ELSE [raised |-> FALSE, error |-> "",
          components |->
            [target_text |-> IF Len(Split(description.text)) > 0
                             THEN Split(description.text)[1]
                             ELSE <<"u","n","k","n","o","w","n">>,
             element_type |-> <<"u","n","k","n","o","w","n">>,
             context_area |-> <<"p","a","g","e">>,
             modifiers |-> <<>>,
             alternative_text |-> <<>>,
             context_null |-> FALSE]]

\* _generate_semantic_selectors(description, params, action_type)
GenerateSemanticSelectors(description, params, llm) ==
    LET explicit == IF "selector" \in DOMAIN params
                    THEN <<SelectorStrategy(params.selector, 100, "explicit")>>
                    ELSE <<>>
        parsed == ParseDescriptionWithLLM(description, llm)
        semantic == IF parsed.raised THEN parsed
                    ELSE GenerateSelectorsFromComponents(parsed.components)
        fallback == GenerateFallbackSelectors(description)
    IN  IF fallback.raised THEN fallback
        ELSE Returned(explicit
                      \o (IF semantic.raised THEN <<>> ELSE semantic.strategies)
                      \o fallback.strategies)

\* sorted(..., reverse=True) of a slip that forgets reverse: ascending order
RECURSIVE SortedAscending(_)
SortedAscending(strategies) ==
    IF Len(strategies) = 0 THEN <<>>
    ELSE LET rest == SortedAscending(Tail(strategies))
             x == Head(strategies)
             k == Cardinality({i \in 1..Len(rest) : rest[i].confidence < x.confidence})
         IN  SubSeq(rest, 1, k) \o <<x>> \o SubSeq(rest, k + 1, Len(rest))

\* stable insertion of the head before the first strictly smaller element
RECURSIVE SortedDescending(_)
SortedDescending(strategies) ==
    IF Len(strategies) = 0 THEN <<>>
    ELSE LET rest == SortedDescending(Tail(strategies))
             x == Head(strategies)
             k == Cardinality({i \in 1..Len(rest) : rest[i].confidence > x.confidence})
         IN  SubSeq(rest, 1, k) \o <<x>> \o SubSeq(rest, k + 1, Len(rest))

\* sorted(selector_strategies, key=lambda x: x.confidence, reverse=True)
SortedStrategies(strategies) == SortedDescending(strategies)

(***************************************************************************)
(* State                                                                   *)
(***************************************************************************)
VARIABLES
    \* one EnhancedActionExecutor.execute_action call
    ePc,            \* "idle", "click", "type" or "done"
    eAction,        \* the NavigationAction being executed
    eGenerated,     \* selector_strategies, in generation order
    eStrategies,    \* sorted_strategies
    eIndex,         \* rank (from 1) of the next strategy to attempt
    eAttempts,      \* the strategies attempted so far, with their timeouts
    eOps,           \* the page, helper and generator operations performed
    eClicks,        \* element.click() calls that completed
    eFaults,        \* the texts of the exceptions raised during the call
    eResult,        \* the ActionExecutionResult returned
    ePropagated,    \* an exception left execute_action
    eElement,       \* what the latest attempt of a click saw of its element
    \* the BrowserPool shared by the sessions of one LayoutAwareScraper
    max_concurrent_browsers,    \* config.max_concurrent_browsers
    semaphore,      \* the value of _context_semaphore
    contexts,       \* self.contexts["default"]: a context (from 1), 0 for none
    created,        \* the number of browser contexts created so far
    \* the LLMNavigationAgent shared by the sessions
    conversation_history,
    \* the scrape_page call of each session
    pc,             \* where the call stands
    page,           \* its page: "none", "open", or "closed" once close() was called
    page_url,       \* page.url
    pending,        \* an exception is passing through get_page
    ended,          \* "no", "returned" (a value) or "raised"
    session,        \* the ScrapingSession: its counters and results
    \* two calls of _generate_semantic_selectors on one executor
    gFirst,
    gSecond

execVars == <<ePc, eAction, eGenerated, eStrategies, eIndex, eAttempts, eOps,
              eClicks, eFaults, eResult, ePropagated, eElement>>

poolVars == <<max_concurrent_browsers, semaphore, contexts, created>>

sessionVars == <<conversation_history, pc, page, page_url, pending, ended, session>>

genVars == <<gFirst, gSecond>>

(***************************************************************************)
(* Values: dicts are functions on their keys                               *)
(***************************************************************************)
EmptyDict == [k \in {} |-> ""]

\* dict.get(key, default)
Get(dict, key, default) == IF key \in DOMAIN dict THEN dict[key] ELSE default

\* the dicts holding one of the given values under key, or no such key
Optional(key, values) == {EmptyDict} \cup {key :> v : v \in values}

NoStrategies == <<>>

NoAction == [action_type |-> "none", target_description |-> [is_str |-> TRUE, text |-> <<>>],
             parameters |-> EmptyDict, confidence |-> 0, reasoning |-> ""]

NoResult == [success |-> FALSE, message |-> <<>>, data |-> EmptyDict, returned |-> FALSE]

\* ActionExecutionResult(success, message, data); a message is the sequence
\* of the parts its format string joins
ActionExecutionResult(success, message, data) ==
    [success |-> success, message |-> message, data |-> data, returned |-> TRUE]

\* f"{confidence:.2f}" of a confidence in hundredths
Format2f(c) == ToString(c \div 100) \o "." \o ToString((c % 100) \div 10) \o ToString(c % 10)

\* exception texts of the page operations
TimeoutText == "Timeout exceeded"

ErrorText == "Target closed"

TypeErrorText == "unsupported operand type(s) for /: 'str' and 'int'"

\* str(e) of direction.lower() on a direction that is None
AttributeErrorText == "'NoneType' object has no attribute 'lower'"

Number(n) == [type |-> "int", value |-> n]

Text(t) == [type |-> "str", value |-> t]

(***************************************************************************)
(* Inputs of the executor                                                  *)
(***************************************************************************)
Str(text) == [is_str |-> TRUE, text |-> text]

NotAStr == [is_str |-> FALSE, text |-> <<>>]

\* "Submit form button"
DescSubmit == Str(<<"S","u","b","m","i","t"," ","f","o","r","m"," ","b","u","t","t","o","n">>)

\* "Discussion tab"
DescTab == Str(<<"D","i","s","c","u","s","s","i","o","n"," ","t","a","b">>)

\* 'Open "Login" link.'
DescLink == Str(<<"O","p","e","n"," ","\"","L","o","g","i","n","\""," ","l","i","n","k",".">>)

\* "go"
DescPlain == Str(<<"g","o">>)

Descriptions == {DescSubmit, DescTab, DescLink, DescPlain, NotAStr}

\* "Save Draft OK button"
DescSave == Str(<<"S","a","v","e"," ","D","r","a","f","t"," ","O","K"," ",
                  "b","u","t","t","o","n">>)

\* the descriptions handed to the generator on its own
GeneratorDescriptions == Descriptions \cup {DescSave}

Components(target_text, element_type, context_area, modifiers, alternative_text, context_null) ==
    [target_text |-> target_text, element_type |-> element_type,
     context_area |-> context_area, modifiers |-> modifiers,
     alternative_text |-> alternative_text, context_null |-> context_null]

\* the replies of the structural-parsing helper
LlmReplies ==
    { [ok |-> FALSE],
      [ok |-> TRUE, components |->
        Components(<<"S","u","b","m","i","t">>, <<"B","u","t","t","o","n">>,
                   <<"f","o","r","m">>, <<>>, <<>>, FALSE)],
      [ok |-> TRUE, components |->
        Components(<<"D","i","s","c","u","s","s","i","o","n">>, <<"t","a","b">>,
                   <<"n","a","v","i","g","a","t","i","o","n">>, << <<"m","a","i","n">> >>,
                   << <<"D","i","s","c","u","s","s","i","o","n","s">> >>, FALSE)],
      [ok |-> TRUE, components |->
        Components(<<"L","o","g","-","i","n">>, <<"l","i","n","k">>,
                   <<"h","e","a","d","e","r">>, <<>>, << <<"S","i","g","n"," ","i","n">> >>, FALSE)],
      [ok |-> TRUE, components |->
        Components(<<>>, <<"l","i","n","k">>, <<>>, <<>>, <<>>, TRUE)],
      [ok |-> TRUE, components |->
        Components(<<"G","o">>, <<"w","i","d","g","e","t">>, <<>>, <<>>, <<>>, TRUE)] }

Confidences == {0, 29, 30}

Action(action_type, target_description, parameters, confidence) ==
    [action_type |-> action_type, target_description |-> target_description,
     parameters |-> parameters, confidence |-> confidence, reasoning |-> "because"]

\* force is handed to element.click() and changes no step of the handler, so
\* it is given alone
ClickParameters ==
    {a @@ c : a \in Optional("selector", {"#go"}),
              c \in Optional("wait_after", {Text("soon")})}
    \cup {[force |-> TRUE]}

TypeParameters ==
    {a @@ b @@ c @@ d : a \in Optional("text", {"", "hello"}),
                        b \in Optional("selector", {"#q"}),
                        c \in Optional("clear", {FALSE}),
                        d \in Optional("press_enter", {TRUE})}

\* "sideways"
Sideways == Str(<<"s","i","d","e","w","a","y","s">>)

ScrollParameters ==
    Optional("direction", {Str(<<"d","o","w","n">>), Str(<<"U","P">>),
                           Str(<<"t","o","_","b","o","t","t","o","m">>),
                           Str(<<"t","o","_","t","o","p">>), Sideways, NotAStr})

WaitParameters == Optional("type", {"timeout", "element", "load_state", "nap"})

NavigateParameters == Optional("url", {"", "https://site/discussion"})

ExtractParameters ==
    {a @@ b : a \in Optional("type", {"text", "html", "element", "pdf"}),
              b \in Optional("selector", {"#main"})}

ParametersOf(action_type) ==
    CASE action_type = "click"    -> ClickParameters
      [] action_type = "type"     -> TypeParameters
      [] action_type = "scroll"   -> ScrollParameters
      [] action_type = "wait"     -> WaitParameters
      [] action_type = "navigate" -> NavigateParameters
      [] action_type = "extract"  -> ExtractParameters
      [] OTHER                    -> {EmptyDict}

ActionTypes == {"click", "type", "scroll", "wait", "navigate", "extract", "error"}

\* the actions handed to execute_action
Actions ==
    UNION {{Action(t, d, p, c) : d \in (IF t \in {"click", "type"} THEN Descriptions ELSE {DescPlain}),
                                 p \in ParametersOf(t), c \in Confidences} : t \in ActionTypes}

(***************************************************************************)
(* EnhancedActionExecutor.execute_action                                   *)
(***************************************************************************)
Finish(result) ==
    /\ eResult' = result
    /\ ePc' = "done"

\* the except clause of execute_action
\* a slip that re-raises from the except clause of execute_action
TopLevelHandlerReraising(error) ==
    [success |-> FALSE, message |-> <<>>, data |-> EmptyDict, returned |-> FALSE]

\* the except clause of execute_action
TopLevelHandler(error) ==
    ActionExecutionResult(FALSE, <<"Execution error: ", error>>, EmptyDict)

\* the confidence gate with a mistyped threshold (0.03 for 0.3)
BelowThresholdMistyped(confidence) == confidence < 3

\* action.confidence < 0.3
BelowThreshold(confidence) == confidence < 30

\* max(2000, 8000 - (i * 1000)), i counted from 0
\* a slip that leaves out the floor of the timeout
ClickTimeoutUnfloored(i) == 8000 - (i * 1000)

ClickTimeout(i) == Max(2000, 8000 - (i * 1000))

Attempt(strategy, timeout) ==
    [selector |-> strategy.selector, confidence |-> strategy.confidence,
     category |-> strategy.category, timeout |-> timeout]

\* the confidence check: the action is rejected before the try block
ExecLowConfidence ==
    /\ UNCHANGED <<poolVars, sessionVars, genVars>>
    /\ ePc = "idle"
    /\ \E a \in Actions :
        /\ BelowThreshold(a.confidence)
        /\ eAction' = a
        /\ Finish(ActionExecutionResult(
                FALSE, <<"Action confidence too low: ", Format2f(a.confidence)>>, EmptyDict))
    /\ UNCHANGED <<eGenerated, eStrategies, eIndex, eAttempts, eOps, eClicks,
                   eFaults, ePropagated, eElement>>

\* _generate_semantic_selectors as called by a handler: the strategies are
\* generated and sorted, or the exception of the generator reaches the
\* except clause of execute_action
GenerateThen(a, llm, next) ==
    LET gen == GenerateSemanticSelectors(a.target_description, a.parameters, llm)
        parsed == ParseDescriptionWithLLM(a.target_description, llm)
        semantic == IF parsed.raised THEN parsed
                    ELSE GenerateSelectorsFromComponents(parsed.components)
        raisedTexts == (IF llm.ok THEN {} ELSE {ErrorText})
                       \cup (IF semantic.raised THEN {semantic.error} ELSE {})
                       \cup (IF gen.raised THEN {gen.error} ELSE {})
    IN  /\ eAction' = a
        /\ eOps' = eOps \cup {"generate_selectors", "llm_parse"}
        /\ eFaults' = eFaults \cup raisedTexts
        /\ eGenerated' = gen.strategies
        /\ eStrategies' = SortedStrategies(gen.strategies)
        /\ eIndex' = 1
        /\ IF gen.raised
           THEN LET result == TopLevelHandler(gen.error)
                IN  /\ Finish(result)
                    /\ ePropagated' = ~result.returned
           ELSE /\ ePc' = next
                /\ UNCHANGED <<eResult, ePropagated>>
        /\ UNCHANGED <<eAttempts, eClicks, eElement>>

\* _execute_enhanced_click, up to the loop
ExecClickStart ==
    /\ UNCHANGED <<poolVars, sessionVars, genVars>>
    /\ ePc = "idle"
    /\ \E a \in Actions, llm \in LlmReplies :
        /\ ~BelowThreshold(a.confidence)
        /\ a.action_type = "click"
        /\ GenerateThen(a, llm, "click")

ClickOutcomes ==
    {"locate_timeout", "locate_error", "not_found", "check_error", "scroll_error",
     "click_error", "clicked"}

LocateOps == {"wait_for_selector"}

CheckOps == LocateOps \cup {"is_visible", "is_enabled"}

ClickOps == CheckOps \cup {"element_info", "scroll_into_view_if_needed", "sleep", "click"}

NoElement == [checked |-> FALSE, is_visible |-> FALSE, is_enabled |-> FALSE, acted |-> FALSE]

\* the attempt read is_visible and is_enabled of the element it located;
\* acted: it went on to scroll to the element and click it
Checked(is_visible, is_enabled, acted) ==
    [checked |-> TRUE, is_visible |-> is_visible, is_enabled |-> is_enabled,
     acted |-> acted]

\* a slip that leaves the loop where the code continues
ContinueAsBreak(i, n) == n + 1

\* continue: the rank of the strategy the loop takes next
Continue(i, n) == i + 1

\* a slip that goes on when the element is visible or enabled
InteractiveEither(is_visible, is_enabled) == is_visible \/ is_enabled

\* not (not is_visible or not is_enabled)
InteractiveElement(is_visible, is_enabled) == ~(~is_visible \/ ~is_enabled)

\* one iteration of the loop of _execute_enhanced_click
ClickAttempt ==
    /\ UNCHANGED <<poolVars, sessionVars, genVars>>
    /\ ePc = "click"
    /\ eIndex <= Len(eStrategies)
    /\ LET strategy == eStrategies[eIndex]
           timeout == ClickTimeout(eIndex - 1)
           wait_after == Get(eAction.parameters, "wait_after", Number(2000))
           continue(element, ops, faults) ==
               /\ eElement' = element
               /\ eOps' = eOps \cup ops
               /\ eFaults' = eFaults \cup faults
               /\ eIndex' = Continue(eIndex, Len(eStrategies))
               /\ UNCHANGED <<ePc, eResult>>
           \* the element was located and both readings were made
           located(is_visible, is_enabled, outcome) ==
               IF ~InteractiveElement(is_visible, is_enabled)
               THEN /\ outcome = "clicked"
                    /\ continue(Checked(is_visible, is_enabled, FALSE), CheckOps, {})
                    /\ UNCHANGED eClicks
               ELSE CASE outcome = "scroll_error" ->
                            continue(Checked(is_visible, is_enabled, TRUE),
                                     CheckOps \cup {"element_info", "scroll_into_view_if_needed"},
                                     {ErrorText}) /\ UNCHANGED eClicks
                      [] outcome = "click_error" ->
                            continue(Checked(is_visible, is_enabled, TRUE), ClickOps,
                                     {TimeoutText}) /\ UNCHANGED eClicks
                      [] outcome = "clicked" ->
                            /\ eClicks' = eClicks + 1
                            /\ IF wait_after.type = "int"
                               THEN /\ eElement' = Checked(is_visible, is_enabled, TRUE)
                                    /\ eOps' = eOps \cup ClickOps
                                    /\ Finish(ActionExecutionResult(TRUE,
                                          <<"Click executed successfully using ",
                                            strategy.category, " strategy">>,
                                          [selector |-> strategy.selector,
                                           strategy |-> strategy.category,
                                           confidence |-> strategy.confidence,
                                           element_info |-> "element"]))
                                    /\ UNCHANGED <<eIndex, eFaults>>
                               ELSE continue(Checked(is_visible, is_enabled, TRUE), ClickOps,
                                             {TypeErrorText})
       IN  /\ eAttempts' = Append(eAttempts, Attempt(strategy, timeout))
           /\ \/ \E outcome \in {"locate_timeout", "locate_error", "not_found", "check_error"} :
                    /\ UNCHANGED eClicks
                    /\ CASE outcome = "locate_timeout" ->
                                continue(NoElement, LocateOps, {TimeoutText})
                          [] outcome = "locate_error" ->
                                continue(NoElement, LocateOps, {ErrorText})
                          [] outcome = "not_found" ->
                                continue(NoElement, LocateOps, {})
                          [] outcome = "check_error" ->
                                continue(NoElement, LocateOps \cup {"is_visible"}, {ErrorText})
              \/ \E is_visible, is_enabled \in BOOLEAN :
                 \E outcome \in {"scroll_error", "click_error", "clicked"} :
                    located(is_visible, is_enabled, outcome)
    /\ UNCHANGED <<eAction, eGenerated, eStrategies, ePropagated>>

\* a slip that lists every strategy in the failure analysis
FailureInfoUncapped(selector_strategies, sorted_strategies) ==
    [strategies_tried |-> Len(selector_strategies),
     strategies |-> [i \in 1..Len(sorted_strategies) |->
        [selector |-> sorted_strategies[i].selector,
         confidence |-> sorted_strategies[i].confidence,
         category |-> sorted_strategies[i].category]]]

\* failure_info of _execute_enhanced_click
FailureInfo(selector_strategies, sorted_strategies) ==
    LET top == Take(sorted_strategies, 5)
    IN  [strategies_tried |-> Len(selector_strategies),
         strategies |-> [i \in 1..Len(top) |->
            [selector |-> top[i].selector, confidence |-> top[i].confidence,
             category |-> top[i].category]]]

\* after the loop of _execute_enhanced_click: every strategy failed
ClickExhausted ==
    /\ UNCHANGED <<poolVars, sessionVars, genVars>>
    /\ ePc = "click"
    /\ eIndex > Len(eStrategies)
    /\ Finish(ActionExecutionResult(FALSE,
              <<"Could not find clickable element after trying ",
                ToString(Len(eGenerated)), " strategies">>,
              FailureInfo(eGenerated, eStrategies)))
    /\ UNCHANGED <<eAction, eGenerated, eStrategies, eIndex, eAttempts, eOps,
                   eClicks, eFaults, ePropagated, eElement>>

\* a slip that lets an empty text through to the selector generation
NoTextNever(text) == FALSE

\* not text, for the text of a type action
NoText(text) == text = ""

\* _execute_type, up to the loop: the text is required
ExecTypeStart ==
    /\ UNCHANGED <<poolVars, sessionVars, genVars>>
    /\ ePc = "idle"
    /\ \E a \in Actions, llm \in LlmReplies :
        /\ ~BelowThreshold(a.confidence)
        /\ a.action_type = "type"
        /\ IF NoText(Get(a.parameters, "text", ""))
           THEN /\ eAction' = a
                /\ Finish(ActionExecutionResult(
                        FALSE, <<"No text specified for typing action">>, EmptyDict))
                /\ UNCHANGED <<eGenerated, eStrategies, eIndex, eAttempts, eOps,
                               eClicks, eFaults, ePropagated, eElement>>
           ELSE GenerateThen(a, llm, "type")

TypeOutcomes ==
    {"locate_timeout", "locate_error", "not_found", "fill_error", "type_error",
     "press_error", "typed"}

\* one iteration of the loop of _execute_type
TypeAttempt ==
    /\ UNCHANGED <<poolVars, sessionVars, genVars>>
    /\ ePc = "type"
    /\ eIndex <= Len(eStrategies)
    /\ LET strategy == eStrategies[eIndex]
           params == eAction.parameters
           clear == Get(params, "clear", TRUE)
           press_enter == Get(params, "press_enter", FALSE)
           fillOps == LocateOps \cup (IF clear THEN {"fill"} ELSE {})
           typeOps == fillOps \cup {"type"}
           pressOps == typeOps \cup (IF press_enter THEN {"press"} ELSE {})
           continue(ops, faults) ==
               /\ eOps' = eOps \cup ops
               /\ eFaults' = eFaults \cup faults
               /\ eIndex' = eIndex + 1
               /\ UNCHANGED <<ePc, eResult>>
       IN  /\ eAttempts' = Append(eAttempts, Attempt(strategy, 5000))
           /\ \E outcome \in TypeOutcomes :
                CASE outcome = "locate_timeout" -> continue(LocateOps, {TimeoutText})
                  [] outcome = "locate_error" -> continue(LocateOps, {ErrorText})
                  [] outcome = "not_found" -> continue(LocateOps, {})
                  [] outcome = "fill_error" -> clear /\ continue(fillOps, {ErrorText})
                  [] outcome = "type_error" -> continue(typeOps, {ErrorText})
                  [] outcome = "press_error" -> press_enter /\ continue(pressOps, {ErrorText})
                  [] outcome = "typed" ->
                        /\ eOps' = eOps \cup pressOps
                        /\ Finish(ActionExecutionResult(TRUE, <<"Text input successful">>,
                              [selector |-> strategy.selector, text |-> params.text]))
                        /\ UNCHANGED <<eIndex, eFaults>>
    /\ UNCHANGED <<eAction, eGenerated, eStrategies, eClicks, ePropagated, eElement>>

\* after the loop of _execute_type
TypeExhausted ==
    /\ UNCHANGED <<poolVars, sessionVars, genVars>>
    /\ ePc = "type"
    /\ eIndex > Len(eStrategies)
    /\ Finish(ActionExecutionResult(FALSE,
          <<"Could not find input element: ", Join(eAction.target_description.text)>>,
          EmptyDict))
    /\ UNCHANGED <<eAction, eGenerated, eStrategies, eIndex, eAttempts, eOps,
                   eClicks, eFaults, ePropagated, eElement>>

\* a single-step handler: the operations it performed, the exceptions
\* raised and the result it returned
Single(a, ops, faults, result) ==
    /\ eAction' = a
    /\ eOps' = eOps \cup ops
    /\ eFaults' = eFaults \cup faults
    /\ Finish(result)
    /\ UNCHANGED <<eGenerated, eStrategies, eIndex, eAttempts, eClicks, ePropagated,
                   eElement>>

ScrollDirections ==
    {<<"d","o","w","n">>, <<"u","p">>, <<"t","o","_","b","o","t","t","o","m">>,
     <<"t","o","_","t","o","p">>}

\* a slip that lets every direction through to the viewport scroll
ValidDirectionAny(direction) == TRUE

\* the if/elif chain on direction.lower()
ValidDirection(direction) == Lower(direction) \in ScrollDirections

\* _execute_scroll
ExecScroll ==
    /\ UNCHANGED <<poolVars, sessionVars, genVars>>
    /\ ePc = "idle"
    /\ \E a \in Actions, outcome \in {"ok", "error"} :
        /\ ~BelowThreshold(a.confidence)
        /\ a.action_type = "scroll"
        /\ LET direction == Get(a.parameters, "direction", Str(<<"d","o","w","n">>))
               amount == Get(a.parameters, "amount", 500)
           IN  IF ~direction.is_str
               THEN /\ outcome = "ok"
                    /\ Single(a, {}, {AttributeErrorText},
                            ActionExecutionResult(FALSE,
                                <<"Scroll failed: ", AttributeErrorText>>, EmptyDict))
               ELSE IF ValidDirection(direction.text)
               THEN IF outcome = "ok"
                    THEN Single(a, {"evaluate", "sleep"}, {},
                            ActionExecutionResult(TRUE, <<"Scroll executed successfully">>,
                                [direction |-> Join(direction.text), amount |-> amount]))
                    ELSE Single(a, {"evaluate"}, {ErrorText},
                            ActionExecutionResult(FALSE, <<"Scroll failed: ", ErrorText>>,
                                EmptyDict))
               ELSE /\ outcome = "ok"
                    /\ Single(a, {}, {},
                            ActionExecutionResult(FALSE,
                                <<"Invalid scroll direction: ", Join(direction.text)>>,
                                EmptyDict))

\* _execute_wait
ExecWait ==
    /\ UNCHANGED <<poolVars, sessionVars, genVars>>
    /\ ePc = "idle"
    /\ \E a \in Actions, outcome \in {"ok", "timeout", "error"} :
        /\ ~BelowThreshold(a.confidence)
        /\ a.action_type = "wait"
        /\ LET wait_type == Get(a.parameters, "type", "timeout")
               op == IF wait_type = "element" THEN "wait_for_selector"
                     ELSE "wait_for_load_state"
           IN  CASE wait_type = "timeout" ->
                        /\ outcome = "ok"
                        /\ Single(a, {"sleep"}, {},
                              ActionExecutionResult(TRUE,
                                  <<"Waited for ", ToString(Get(a.parameters, "duration", 2000)),
                                    "ms">>, EmptyDict))
                 [] wait_type \in {"element", "load_state"} ->
                       (CASE outcome = "ok" ->
                                Single(a, {op}, {},
                                    ActionExecutionResult(TRUE,
                                        IF wait_type = "element"
                                        THEN <<"Element appeared: ",
                                               Get(a.parameters, "selector", "")>>
                                        ELSE <<"Load state reached: ",
                                               Get(a.parameters, "state", "networkidle")>>,
                                        EmptyDict))
                          [] outcome = "timeout" ->
                                Single(a, {op}, {TimeoutText},
                                    ActionExecutionResult(FALSE,
                                        <<"Wait timeout: ", wait_type>>, EmptyDict))
                          [] outcome = "error" ->
                                Single(a, {op}, {ErrorText},
                                    ActionExecutionResult(FALSE,
                                        <<"Wait failed: ", ErrorText>>, EmptyDict)))
                 [] OTHER ->
                        /\ outcome = "ok"
                        /\ Single(a, {}, {},
                              ActionExecutionResult(FALSE,
                                  <<"Invalid wait type: ", wait_type>>, EmptyDict))

\* a slip that takes every url as given
NoUrlNever(url) == FALSE

\* not url
NoUrl(url) == url = ""

\* _execute_navigate
ExecNavigate ==
    /\ UNCHANGED <<poolVars, sessionVars, genVars>>
    /\ ePc = "idle"
    /\ \E a \in Actions, outcome \in {"ok", "goto_error", "load_timeout"} :
        /\ ~BelowThreshold(a.confidence)
        /\ a.action_type = "navigate"
        /\ LET url == Get(a.parameters, "url", "")
           IN  IF NoUrl(url)
               THEN /\ outcome = "ok"
                    /\ Single(a, {}, {},
                          ActionExecutionResult(FALSE, <<"No URL specified for navigation">>,
                              EmptyDict))
               ELSE CASE outcome = "ok" ->
                            Single(a, {"goto", "wait_for_load_state"}, {},
                                ActionExecutionResult(TRUE, <<"Navigation successful">>,
                                    [url |-> url]))
                      [] outcome = "goto_error" ->
                            Single(a, {"goto"}, {ErrorText},
                                ActionExecutionResult(FALSE,
                                    <<"Navigation failed: ", ErrorText>>, EmptyDict))
                      [] outcome = "load_timeout" ->
                            Single(a, {"goto", "wait_for_load_state"}, {TimeoutText},
                                ActionExecutionResult(FALSE,
                                    <<"Navigation failed: ", TimeoutText>>, EmptyDict))

\* _execute_extract
ExecExtract ==
    /\ UNCHANGED <<poolVars, sessionVars, genVars>>
    /\ ePc = "idle"
    /\ \E a \in Actions, outcome \in {"ok", "not_found", "error"} :
        /\ ~BelowThreshold(a.confidence)
        /\ a.action_type = "extract"
        /\ LET extraction_type == Get(a.parameters, "type", "text")
               selector == Get(a.parameters, "selector", "")
               invalid == ActionExecutionResult(FALSE,
                              <<"Invalid extraction type or missing selector: ",
                                extraction_type>>, EmptyDict)
               failed == ActionExecutionResult(FALSE,
                              <<"Extraction failed: ", ErrorText>>, EmptyDict)
           IN  CASE extraction_type \in {"text", "html"} ->
                        LET op == IF extraction_type = "text" THEN "text_content" ELSE "content"
                        IN (CASE outcome = "ok" ->
                                    Single(a, {op}, {},
                                        ActionExecutionResult(TRUE,
                                            IF extraction_type = "text"
                                            THEN <<"Text extracted">> ELSE <<"HTML extracted">>,
                                            [content |-> "content"]))
                              [] outcome = "error" -> Single(a, {op}, {ErrorText}, failed)
                              [] OTHER -> FALSE)
                 [] extraction_type = "element" /\ selector # "" ->
                       (CASE outcome = "ok" ->
                                Single(a, {"wait_for_selector", "text_content"}, {},
                                    ActionExecutionResult(TRUE, <<"Element text extracted">>,
                                        [content |-> "content", selector |-> selector]))
                          [] outcome = "not_found" ->
                                Single(a, {"wait_for_selector"}, {}, invalid)
                          [] outcome = "error" ->
                                Single(a, {"wait_for_selector"}, {ErrorText}, failed))
                 [] OTHER -> outcome = "ok" /\ Single(a, {}, {}, invalid)

\* the else branch of the dispatch: no handler for this action type
ExecUnsupported ==
    /\ UNCHANGED <<poolVars, sessionVars, genVars>>
    /\ ePc = "idle"
    /\ \E a \in Actions :
        /\ ~BelowThreshold(a.confidence)
        /\ a.action_type \notin {"click", "type", "scroll", "wait", "navigate", "extract"}
        /\ Single(a, {}, {},
              ActionExecutionResult(FALSE,
                  <<"Unsupported action type: ", a.action_type>>, EmptyDict))

\* the caller takes the result; the executor is ready for the next call
ExecReturn ==
    /\ UNCHANGED <<poolVars, sessionVars, genVars>>
    /\ ePc = "done"
    /\ ePc' = "idle"
    /\ eAction' = NoAction
    /\ eGenerated' = NoStrategies
    /\ eStrategies' = NoStrategies
    /\ eIndex' = 0
    /\ eAttempts' = <<>>
    /\ eOps' = {}
    /\ eClicks' = 0
    /\ eFaults' = {}
    /\ eResult' = NoResult
    /\ ePropagated' = FALSE
    /\ eElement' = NoElement

(***************************************************************************)
(* What one execute_action call can return, as the session sees it: the    *)
(* success flag, the head of the message, the keys of the data and whether *)
(* the page was operated on                                                *)
(***************************************************************************)
PageOps == {"wait_for_selector", "is_visible", "is_enabled", "element_info",
            "scroll_into_view_if_needed", "click", "fill", "type", "press",
            "evaluate", "goto", "wait_for_load_state", "text_content", "content"}

Seen(success, message, keys, touched) ==
    [success |-> success, message |-> message, keys |-> keys, touched |-> touched]

\* some reply of the helper leaves the action without any strategy
MayHaveNoStrategy(a) ==
    \E llm \in LlmReplies :
        Len(GenerateSemanticSelectors(a.target_description, a.parameters, llm).strategies) = 0

\* execute_action(page, action)
ExecuteActionOutcomes(a) ==
    LET params == a.parameters
        untouched == IF MayHaveNoStrategy(a) THEN {TRUE, FALSE} ELSE {TRUE}
        toplevel == {Seen(FALSE, "Execution error: ", {}, FALSE)}
    IN  IF BelowThreshold(a.confidence)
        THEN {Seen(FALSE, "Action confidence too low: ", {}, FALSE)}
        ELSE CASE a.action_type = "click" ->
                    IF ~a.target_description.is_str THEN toplevel
                    ELSE {Seen(TRUE, "Click executed successfully using ",
                               {"selector", "strategy", "confidence", "element_info"}, TRUE)}
                         \cup {Seen(FALSE, "Could not find clickable element after trying ",
                                    {"strategies_tried", "strategies"}, t) : t \in untouched}
               [] a.action_type = "type" ->
                    IF Get(params, "text", "") = ""
                    THEN {Seen(FALSE, "No text specified for typing action", {}, FALSE)}
                    ELSE IF ~a.target_description.is_str THEN toplevel
                    ELSE {Seen(TRUE, "Text input successful", {"selector", "text"}, TRUE)}
                         \cup {Seen(FALSE, "Could not find input element: ", {}, t) :
                                    t \in untouched}
               [] a.action_type = "scroll" ->
                    IF ~Get(params, "direction", Str(<<"d","o","w","n">>)).is_str
                    THEN {Seen(FALSE, "Scroll failed: ", {}, FALSE)}
                    ELSE IF ValidDirection(Get(params, "direction", Str(<<"d","o","w","n">>)).text)
                    THEN {Seen(TRUE, "Scroll executed successfully", {"direction", "amount"}, TRUE),
                          Seen(FALSE, "Scroll failed: ", {}, TRUE)}
                    ELSE {Seen(FALSE, "Invalid scroll direction: ", {}, FALSE)}
               [] a.action_type = "wait" ->
                   (CASE Get(params, "type", "timeout") = "timeout" ->
                            {Seen(TRUE, "Waited for ", {}, FALSE)}
                      [] Get(params, "type", "timeout") = "element" ->
                            {Seen(TRUE, "Element appeared: ", {}, TRUE),
                             Seen(FALSE, "Wait timeout: ", {}, TRUE),
                             Seen(FALSE, "Wait failed: ", {}, TRUE)}
                      [] Get(params, "type", "timeout") = "load_state" ->
                            {Seen(TRUE, "Load state reached: ", {}, TRUE),
                             Seen(FALSE, "Wait timeout: ", {}, TRUE),
                             Seen(FALSE, "Wait failed: ", {}, TRUE)}
                      [] OTHER -> {Seen(FALSE, "Invalid wait type: ", {}, FALSE)})
               [] a.action_type = "navigate" ->
                    IF Get(params, "url", "") = ""
                    THEN {Seen(FALSE, "No URL specified for navigation", {}, FALSE)}
                    ELSE {Seen(TRUE, "Navigation successful", {"url"}, TRUE),
                          Seen(FALSE, "Navigation failed: ", {}, TRUE)}
               [] a.action_type = "extract" ->
                   (CASE Get(params, "type", "text") = "text" ->
                            {Seen(TRUE, "Text extracted", {"content"}, TRUE),
                             Seen(FALSE, "Extraction failed: ", {}, TRUE)}
                      [] Get(params, "type", "text") = "html" ->
                            {Seen(TRUE, "HTML extracted", {"content"}, TRUE),
                             Seen(FALSE, "Extraction failed: ", {}, TRUE)}
                      [] Get(params, "type", "text") = "element"
                            /\ Get(params, "selector", "") # "" ->
                            {Seen(TRUE, "Element text extracted", {"content", "selector"}, TRUE),
                             Seen(FALSE, "Invalid extraction type or missing selector: ", {}, TRUE),
                             Seen(FALSE, "Extraction failed: ", {}, TRUE)}
                      [] OTHER ->
                            {Seen(FALSE, "Invalid extraction type or missing selector: ", {}, FALSE)})
               [] OTHER -> {Seen(FALSE, "Unsupported action type: ", {}, FALSE)}

\* the executor's steps stay within what the session is told it can return
ExecutorWithinOutcomes ==
    ePc = "done" =>
        Seen(eResult.success, eResult.message[1], DOMAIN eResult.data,
             eOps \cap PageOps # {}) \in ExecuteActionOutcomes(eAction)

(***************************************************************************)
(* LLMNavigationAgent.analyze_page_and_plan_action                         *)
(***************************************************************************)
HistoryLimit == 10

HistoryWindow == 3

\* the last n entries of a list: list[-n:]
Last(list, n) == SubSeq(list, Max(1, Len(list) - n + 1), Len(list))

\* the history lines _build_navigation_context puts into the request
ContextHistory(history) == Last(history, HistoryWindow)

\* a slip that keeps every entry
UpdateConversationHistoryUncapped(history, goal, action) ==
    Append(history, [goal |-> goal,
                     action |-> <<action.action_type, " -> ",
                                  action.target_description.text>>])

\* _update_conversation_history
UpdateConversationHistory(history, goal, action) ==
    LET appended == Append(history, [goal |-> goal,
                                     action |-> <<action.action_type, " -> ",
                                                  action.target_description.text>>])
    IN  IF Len(appended) > HistoryLimit THEN Last(appended, HistoryLimit) ELSE appended

\* the action returned when the query or the parsing of the reply raised
AnalysisFailed ==
    [action_type |-> "error", target_description |-> Str(<<>>),
     parameters |-> EmptyDict, confidence |-> 0, reasoning |-> "Error: "]

\* the replies of the decision service that _parse_llm_response accepts
Decisions ==
    {Action(t, DescPlain, p, c) :
        t \in {"click", "type", "scroll", "wait", "extract", "error"},
        p \in {EmptyDict}, c \in {20, 90}}
    \cup {Action("type", DescPlain, "text" :> "hello", c) : c \in {20, 90}}
    \cup {Action("navigate", DescPlain, p, c) :
            p \in {EmptyDict, "url" :> "https://site/discussion"}, c \in {20, 90}}

\* the characters of the action_type of a reply
Characters(action_type) ==
    CASE action_type = "click"    -> <<"c","l","i","c","k">>
      [] action_type = "type"     -> <<"t","y","p","e">>
      [] action_type = "scroll"   -> <<"s","c","r","o","l","l">>
      [] action_type = "wait"     -> <<"w","a","i","t">>
      [] action_type = "navigate" -> <<"n","a","v","i","g","a","t","e">>
      [] action_type = "extract"  -> <<"e","x","t","r","a","c","t">>
      [] action_type = "error"    -> <<"e","r","r","o","r">>

\* the JSON object of a reply: its fields, parameters tagged as a dict or not
JsonOf(action) ==
    [kind |-> "json",
     data |-> [action_type |-> Characters(action.action_type),
               target_description |-> action.target_description,
               parameters |-> [is_dict |-> TRUE, value |-> action.parameters],
               confidence |-> action.confidence,
               reasoning |-> action.reasoning]]

\* data without one field
Without(data, field) == [k \in DOMAIN data \ {field} |-> data[k]]

TheReply == JsonOf(Action("click", DescPlain, EmptyDict, 90)).data

\* what _query_llm_for_action gives: an exception of the client, a text that
\* is not JSON, or a JSON object
NoResponse == [kind |-> "none"]

Responses ==
    {JsonOf(a) : a \in Decisions}
    \cup {[kind |-> "fault"], [kind |-> "text"]}
    \cup {[kind |-> "json", data |-> d] :
            d \in {Without(TheReply, "confidence"),
                   Without(TheReply, "reasoning"),
                   [TheReply EXCEPT !.action_type = <<"h","o","v","e","r">>],
                   [TheReply EXCEPT !.confidence = 150],
                   [TheReply EXCEPT !.confidence = 0 - 10],
                   [TheReply EXCEPT !.action_type = <<"E","x","t","r","a","c","t">>],
                   [TheReply EXCEPT !.action_type = <<"e","r","r","o","r">>,
                                    !.target_description = NotAStr,
                                    !.parameters = [is_dict |-> FALSE, value |-> EmptyDict]]}}

RequiredFields == {"action_type", "target_description", "parameters", "confidence", "reasoning"}

\* a parser that takes any confidence
ParseLlmResponseAnyConfidence(response) ==
    IF response.kind # "json" \/ ~(RequiredFields \subseteq DOMAIN response.data)
    THEN [raised |-> TRUE, error |-> "Invalid LLM response: "]
    ELSE [raised |-> FALSE,
          action |-> [action_type |-> "click",
                      target_description |-> DescPlain,
                      parameters |-> EmptyDict,
                      confidence |-> response.data.confidence,
                      reasoning |-> response.data.reasoning]]

\* _parse_llm_response
ParseLlmResponse(response) ==
    IF response.kind # "json"
    THEN [raised |-> TRUE, error |-> "LLM returned invalid JSON: "]
    ELSE LET data == response.data
         IN  IF ~(RequiredFields \subseteq DOMAIN data)
             THEN [raised |-> TRUE, error |-> "Invalid LLM response: "]
             ELSE IF Join(Lower(data.action_type)) \notin ActionTypes
             THEN [raised |-> TRUE, error |-> "Invalid LLM response: "]
             ELSE IF ~(0 <= data.confidence /\ data.confidence <= 100)
             THEN [raised |-> TRUE, error |-> "Invalid LLM response: "]
             ELSE [raised |-> FALSE,
                   action |-> [action_type |-> Join(Lower(data.action_type)),
                               target_description |->
                                   IF data.target_description.is_str
                                   THEN data.target_description
                                   ELSE Str(<<"N","o","n","e">>),
                               parameters |-> IF data.parameters.is_dict
                                              THEN data.parameters.value ELSE EmptyDict,
                               confidence |-> data.confidence,
                               reasoning |-> data.reasoning]]

\* a slip that writes the history before the reply is parsed
AnalyzePageAndPlanActionRecordingFirst(history, goal, response) ==
    IF response.kind = "fault"
    THEN [action |-> AnalysisFailed, history |-> history]
    ELSE LET parsed == ParseLlmResponse(response)
             updated == UpdateConversationHistory(history, goal,
                            [action_type |-> "error", target_description |-> Str(<<>>)])
         IN  IF parsed.raised
             THEN [action |-> AnalysisFailed, history |-> updated]
             ELSE [action |-> parsed.action, history |-> updated]

\* analyze_page_and_plan_action: the action returned and the history left
\* behind, for a response of the decision service
AnalyzePageAndPlanAction(history, goal, response) ==
    IF response.kind = "fault"
    THEN [action |-> AnalysisFailed, history |-> history]
    ELSE LET parsed == ParseLlmResponse(response)
         IN  IF parsed.raised
             THEN [action |-> AnalysisFailed, history |-> history]
             ELSE [action |-> parsed.action,
                   history |-> UpdateConversationHistory(history, goal,
                                  [action_type |-> Join(response.data.action_type),
                                   target_description |-> parsed.action.target_description])]

(***************************************************************************)
(* BrowserPool.get_page, one call per session                              *)
(***************************************************************************)
NumSessions == 3

MaxBrowsers == 2

MaxActions == 2

Sessions == 1 .. NumSessions

StartUrl == "https://site/competition"

OtherUrl == "https://site/competition/discussion"

Urls == {StartUrl, OtherUrl}

\* ScrapingSession(url, goal, max_actions) after __post_init__
ScrapingSession(url, goal, max_actions) ==
    [url |-> url, goal |-> goal, max_actions |-> max_actions, current_action |-> 0,
     actions_taken |-> <<>>, extracted_content |-> {}, navigation_path |-> <<>>,
     errors |-> <<>>, selector_strategies_used |-> <<>>,
     snapshot |-> EmptyDict, page_state |-> EmptyDict, action |-> NoAction,
     context |-> <<>>, response |-> NoResponse, steps |-> <<>>, touched |-> FALSE]

\* an exit that keeps the slot when an exception passes
ReleaseRaisingKeepingSlot(s) ==
    /\ semaphore' = semaphore
    /\ pc' = [pc EXCEPT ![s] = "done"]
    /\ ended' = [ended EXCEPT ![s] = "raised"]

\* the exit of "async with self._context_semaphore", taken with an exception
\* on its way out of scrape_page
ReleaseRaising(s) ==
    /\ semaphore' = semaphore + 1
    /\ pc' = [pc EXCEPT ![s] = "done"]
    /\ ended' = [ended EXCEPT ![s] = "raised"]

\* a semaphore that never makes a caller wait
SemaphoreAlwaysFree(value) == TRUE

\* "async with self._context_semaphore" goes on without waiting
SemaphoreFree(value) == value > 0

\* entering get_page: the semaphore is taken and _get_or_create_context runs
\* up to its first await
AcquirePage(s) ==
    /\ pc[s] = "start"
    /\ SemaphoreFree(semaphore)
    /\ semaphore' = semaphore - 1
    /\ pc' = [pc EXCEPT ![s] = IF contexts = 0 THEN "new_context" ELSE "new_page"]
    /\ UNCHANGED <<max_concurrent_browsers, contexts, created, conversation_history,
                   page, page_url, pending, ended, session, execVars, genVars>>

\* browser.new_context(...) returns, or raises
NewContext(s) ==
    /\ pc[s] = "new_context"
    /\ \E result \in {"context", "error"} :
        IF result = "context"
        THEN /\ created' = created + 1
             /\ contexts' = created + 1
             /\ pc' = [pc EXCEPT ![s] = "new_page"]
             /\ UNCHANGED <<semaphore, ended>>
        ELSE /\ ReleaseRaising(s)
             /\ UNCHANGED <<contexts, created>>
    /\ UNCHANGED <<max_concurrent_browsers, conversation_history, page, page_url,
                   pending, session, execVars, genVars>>

\* context.new_page() returns, or raises
NewPage(s) ==
    /\ pc[s] = "new_page"
    /\ \E result \in {"page", "error"} :
        IF result = "page"
        THEN /\ page' = [page EXCEPT ![s] = "open"]
             /\ pc' = [pc EXCEPT ![s] = "configure"]
             /\ UNCHANGED <<semaphore, ended>>
        ELSE /\ ReleaseRaising(s)
             /\ UNCHANGED page
    /\ UNCHANGED <<max_concurrent_browsers, contexts, created, conversation_history,
                   page_url, pending, session, execVars, genVars>>

\* _configure_stealth(page) returns and the page is yielded, or it raises
\* and the finally clause goes on to close the page
ConfigureStealth(s) ==
    /\ pc[s] = "configure"
    /\ \E result \in {"configured", "error"} :
        IF result = "configured"
        THEN /\ pc' = [pc EXCEPT ![s] = "goto"]
             /\ UNCHANGED pending
        ELSE /\ pc' = [pc EXCEPT ![s] = "close"]
             /\ pending' = [pending EXCEPT ![s] = TRUE]
    /\ UNCHANGED <<poolVars, conversation_history, page, page_url, ended, session,
                   execVars, genVars>>

\* page.close() in the finally clause, then the exit of the semaphore; an
\* exception of close() takes the place of a return
ClosePage(s) ==
    /\ pc[s] = "close"
    /\ \E result \in {"closed", "error"} :
        /\ page' = [page EXCEPT ![s] = "closed"]
        /\ semaphore' = semaphore + 1
        /\ pc' = [pc EXCEPT ![s] = "done"]
        /\ ended' = [ended EXCEPT ![s] =
                        IF pending[s] \/ result = "error" THEN "raised" ELSE "returned"]
    /\ pending' = [pending EXCEPT ![s] = FALSE]
    /\ UNCHANGED <<max_concurrent_browsers, contexts, created, conversation_history,
                   page_url, session, execVars, genVars>>

(***************************************************************************)
(* LayoutAwareScraper.scrape_page, inside "async with get_page() as page"  *)
(***************************************************************************)
\* the except clause of scrape_page: the failure is recorded and the
\* results are returned
SessionFailure(s) ==
    /\ session' = [session EXCEPT ![s].errors =
                        Append(@, [type |-> "session_failure", error |-> ErrorText,
                                   action_number |-> session[s].current_action])]
    /\ pc' = [pc EXCEPT ![s] = "close"]

\* page.goto(session.url), wait_for_content_loaded, the first entry of the
\* navigation path
Goto(s) ==
    /\ pc[s] = "goto"
    /\ \E result \in {"loaded", "error"} :
        IF result = "loaded"
        THEN \E landed \in Urls :
                /\ page_url' = [page_url EXCEPT ![s] = landed]
                /\ session' = [session EXCEPT ![s].navigation_path =
                                    Append(@, session[s].url)]
                /\ pc' = [pc EXCEPT ![s] = "loop"]
        ELSE /\ SessionFailure(s)
             /\ UNCHANGED page_url
    /\ UNCHANGED <<poolVars, conversation_history, page, pending, ended, execVars, genVars>>

\* a loop test that lets one turn too many through
LoopContinuesInclusive(sess) == sess.current_action <= sess.max_actions

\* while session.current_action < session.max_actions
LoopContinues(sess) == sess.current_action < sess.max_actions

\* a slip that leaves the counter of the turns where it is
NextTurnStalled(current_action) == current_action

\* session.current_action += 1
NextTurn(current_action) == current_action + 1

\* the head of a turn: the counter and _analyze_current_page
TurnAnalyze(s) ==
    /\ pc[s] = "loop"
    /\ LoopContinues(session[s])
    /\ \E result \in {"analysed", "error"} :
        LET counted == [session EXCEPT ![s].current_action = NextTurn(@)]
        IN  IF result = "analysed"
            THEN /\ session' = [counted EXCEPT ![s].page_state =
                                    [url |-> page_url[s],
                                     action_number |-> counted[s].current_action]]
                 /\ pc' = [pc EXCEPT ![s] = "decide"]
            ELSE /\ session' = [counted EXCEPT ![s].errors =
                                    Append(@, [type |-> "session_failure", error |-> ErrorText,
                                               action_number |-> counted[s].current_action])]
                 /\ pc' = [pc EXCEPT ![s] = "close"]
    /\ UNCHANGED <<poolVars, conversation_history, page, page_url, pending, ended,
                   execVars, genVars>>

\* an extraction that returns an empty dict
ExtractContentKeysEmpty == {{}}

\* the keys _extract_content returns
ExtractContentKeys == {{"title", "text_content", "extraction_metadata"}, {"extraction_error"}}

\* the keys _extract_final_content returns
ExtractFinalContentKeys ==
    {{"final_title", "final_url", "final_text_preview"}, {"final_extraction_error"}}

\* analyze_page_and_plan_action, the action record, and the turn of an
\* extract or error action
\* a slip that goes back to the loop test after an extraction
BreakAsContinue == "loop"

\* break: the place of the call after the loop was left
Break == "final"

\* a slip that leaves the error decisions out of actions_taken
RecordDecisionUnlessError(actions_taken, action_record) ==
    IF action_record.action_type = "error" THEN actions_taken
    ELSE Append(actions_taken, action_record)

\* session.results['actions_taken'].append(action_record)
RecordDecision(actions_taken, action_record) == Append(actions_taken, action_record)

TurnDecide(s) ==
    /\ pc[s] = "decide"
    /\ \E response \in Responses :
        LET planned == AnalyzePageAndPlanAction(conversation_history, session[s].goal, response)
            reply == planned.action
            recorded == [session EXCEPT
                            ![s].context = ContextHistory(conversation_history),
                            ![s].response = response,
                            ![s].action = reply,
                            ![s].actions_taken =
                                RecordDecision(@, [action_type |-> reply.action_type,
                                                   confidence |-> reply.confidence,
                                                   page_url |-> session[s].page_state.url])]
        IN  /\ conversation_history' = planned.history
            /\ CASE reply.action_type = "extract" ->
                        \E content \in ExtractContentKeys :
                            /\ session' = [recorded EXCEPT ![s].extracted_content = @ \cup content]
                            /\ pc' = [pc EXCEPT ![s] = Break]
                 [] reply.action_type = "error" ->
                        /\ session' = [recorded EXCEPT ![s].errors =
                                            Append(@, [type |-> "reasoning",
                                                       reasoning |-> reply.reasoning])]
                        /\ pc' = [pc EXCEPT ![s] = "final"]
                 [] OTHER ->
                        /\ session' = recorded
                        /\ pc' = [pc EXCEPT ![s] = "execute"]
    /\ UNCHANGED <<poolVars, page, page_url, pending, ended, execVars, genVars>>

\* a failure recorded twice
\* a slip that puts the newest record first
RecordFailureInFront(errors, execution_record) == <<execution_record>> \o errors

RecordFailureTwice(errors, execution_record) ==
    Append(Append(errors, execution_record), execution_record)

\* session.results['errors'].append(execution_record)
RecordFailure(errors, execution_record) == Append(errors, execution_record)

\* what the turn does after a successful action, in this order
AfterSuccess == <<"add_random_delay", "wait_for_content_loaded", "page.url">>

\* a slip that takes every url read after the action as a new one
UrlChangedAlways(new_url, page_state) == TRUE

\* new_url != page_state['url']
UrlChanged(new_url, page_state) == new_url # page_state.url

\* execute_action and what the turn does with its result
TurnExecute(s) ==
    /\ pc[s] = "execute"
    /\ \E result \in ExecuteActionOutcomes(session[s].action) :
       \E new_url \in (IF result.touched THEN Urls ELSE {page_url[s]}) :
        /\ page_url' = [page_url EXCEPT ![s] = new_url]
        /\ IF ~result.success
           THEN session' = [session EXCEPT ![s].errors =
                                RecordFailure(@, [type |-> "execution_record",
                                                  action_type |-> session[s].action.action_type,
                                                  success |-> result.success,
                                                  message |-> result.message,
                                                  execution_data |-> result.keys]),
                                           ![s].steps = <<>>,
                                           ![s].touched = result.touched]
           ELSE session' = [session EXCEPT
                                ![s].steps = AfterSuccess,
                                ![s].touched = result.touched,
                                ![s].selector_strategies_used =
                                    IF "strategy" \in result.keys
                                    THEN Append(@, [action |-> session[s].action.target_description])
                                    ELSE @,
                                ![s].navigation_path =
                                    IF UrlChanged(new_url, session[s].page_state)
                                    THEN Append(@, new_url) ELSE @]
        /\ pc' = [pc EXCEPT ![s] = "loop"]
    /\ UNCHANGED <<poolVars, conversation_history, page, pending, ended, execVars, genVars>>

\* after the loop: the final extraction if nothing was extracted, the
\* closing fields of the results, and the return
Finalize(s) ==
    /\ \/ pc[s] = "final"
       \/ pc[s] = "loop" /\ ~LoopContinues(session[s])
    /\ \E content \in (IF session[s].extracted_content = {}
                       THEN ExtractFinalContentKeys ELSE {{}}) :
        session' = [session EXCEPT
                        ![s].extracted_content = @ \cup content,
                        ![s].snapshot =
                            [final_url |-> page_url[s],
                             total_actions |-> session[s].current_action,
                             successful_navigation |-> Len(session[s].navigation_path) > 1,
                             strategies_learned |-> Len(session[s].selector_strategies_used)]]
    /\ pc' = [pc EXCEPT ![s] = "close"]
    /\ UNCHANGED <<poolVars, conversation_history, page, page_url, pending, ended,
                   execVars, genVars>>

(***************************************************************************)
(* _generate_semantic_selectors called twice on one executor               *)
(***************************************************************************)
NoCall == [called |-> FALSE]

GeneratorParameters == Optional("selector", {"#go"})

Call(description, params, llm) ==
    LET gen == GenerateSemanticSelectors(description, params, llm)
    IN  [called |-> TRUE, description |-> description, params |-> params, llm |-> llm,
         raised |-> gen.raised, error |-> gen.error, strategies |-> gen.strategies]

GenerateFirst ==
    /\ ~gFirst.called
    /\ \E description \in GeneratorDescriptions, params \in GeneratorParameters,
          llm \in LlmReplies :
        gFirst' = Call(description, params, llm)
    /\ UNCHANGED <<gSecond, execVars, poolVars, sessionVars>>

GenerateSecond ==
    /\ gFirst.called
    /\ ~gSecond.called
    /\ \E description \in GeneratorDescriptions, params \in GeneratorParameters,
          llm \in LlmReplies :
        gSecond' = Call(description, params, llm)
    /\ UNCHANGED <<gFirst, execVars, poolVars, sessionVars>>

InitExecutor ==
    /\ ePc = "idle"
    /\ eAction = NoAction
    /\ eGenerated = NoStrategies
    /\ eStrategies = NoStrategies
    /\ eIndex = 0
    /\ eAttempts = <<>>
    /\ eOps = {}
    /\ eClicks = 0
    /\ eFaults = {}
    /\ eResult = NoResult
    /\ ePropagated = FALSE
    /\ eElement = NoElement

NextExecutor ==
    \/ ExecLowConfidence
    \/ ExecClickStart
    \/ ClickAttempt
    \/ ClickExhausted
    \/ ExecTypeStart
    \/ TypeAttempt
    \/ TypeExhausted
    \/ ExecScroll
    \/ ExecWait
    \/ ExecNavigate
    \/ ExecExtract
    \/ ExecUnsupported
    \/ ExecReturn

NoSessions == [s \in Sessions |-> ScrapingSession(StartUrl, "", 0)]

\* a scraper whose sessions are not started
InitIdleScraper ==
    /\ max_concurrent_browsers = MaxBrowsers
    /\ semaphore = max_concurrent_browsers
    /\ contexts = 0
    /\ created = 0
    /\ conversation_history = <<>>
    /\ pc = [s \in Sessions |-> "unused"]
    /\ page = [s \in Sessions |-> "none"]
    /\ page_url = [s \in Sessions |-> "about:blank"]
    /\ pending = [s \in Sessions |-> FALSE]
    /\ ended = [s \in Sessions |-> "no"]
    /\ session = NoSessions

InitGenerator ==
    /\ gFirst = NoCall
    /\ gSecond = NoCall

vars == <<execVars, poolVars, sessionVars, genVars>>

\* execute_action called on its own, with every action
InitExec == InitExecutor /\ InitIdleScraper /\ InitGenerator

NextExec == NextExecutor

SpecExec == InitExec /\ [][NextExec]_vars

\* the generator called twice
InitGen == InitExecutor /\ InitIdleScraper /\ InitGenerator

NextGen == GenerateFirst \/ GenerateSecond

SpecGen == InitGen /\ [][NextGen]_vars

Goal(s) == "goal " \o ToString(s)

\* one scrape_page call, with every number of turns up to MaxActions
Init ==
    /\ InitExecutor
    /\ InitGenerator
    /\ max_concurrent_browsers \in 1 .. MaxBrowsers
    /\ semaphore = max_concurrent_browsers
    /\ contexts = 0
    /\ created = 0
    /\ conversation_history = <<>>
    /\ pc = [s \in Sessions |-> IF s = 1 THEN "start" ELSE "unused"]
    /\ page = [s \in Sessions |-> "none"]
    /\ page_url = [s \in Sessions |-> "about:blank"]
    /\ pending = [s \in Sessions |-> FALSE]
    /\ ended = [s \in Sessions |-> "no"]
    /\ \E max_actions \in 0 .. MaxActions :
        session = [s \in Sessions |->
                    IF s = 1 THEN ScrapingSession(StartUrl, Goal(s), max_actions)
                    ELSE ScrapingSession(StartUrl, "", 0)]

Next ==
    \E s \in Sessions :
        \/ AcquirePage(s)
        \/ NewContext(s)
        \/ NewPage(s)
        \/ ConfigureStealth(s)
        \/ Goto(s)
        \/ TurnAnalyze(s)
        \/ TurnDecide(s)
        \/ TurnExecute(s)
        \/ Finalize(s)
        \/ ClosePage(s)

Spec == Init /\ [][Next]_vars

\* the places of a call of scrape_page
Positions ==
    {"unused", "start", "new_context", "new_page", "configure", "goto", "loop",
     "decide", "execute", "final", "close", "done"}

\* the coroutine of session s is resumed and reaches its next await: it can
\* be resumed when it has begun and not ended and, at the entry of get_page,
\* when the semaphore has a free slot. Every action of Next moves the pc of
\* its session, and at every place but these an action of the session is
\* enabled, so this is the step of session s without its data.
Resume(s) ==
    /\ pc[s] \notin {"unused", "done"}
    /\ pc[s] = "start" => SemaphoreFree(semaphore)
    /\ \E position \in Positions \ {pc[s]} : pc' = [pc EXCEPT ![s] = position]

\* one call of scrape_page on an event loop that resumes a coroutine whose
\* awaited call has returned, raised or timed out
SpecFair == Init /\ [][Next]_vars /\ \A s \in Sessions : WF_pc(Resume(s))

\* scrape_page called for NumSessions sessions at once on one scraper, each
\* session with max_actions = 0
InitPool ==
    /\ InitExecutor
    /\ InitGenerator
    /\ max_concurrent_browsers \in 1 .. MaxBrowsers
    /\ semaphore = max_concurrent_browsers
    /\ contexts = 0
    /\ created = 0
    /\ conversation_history = <<>>
    /\ pc = [s \in Sessions |-> "start"]
    /\ page = [s \in Sessions |-> "none"]
    /\ page_url = [s \in Sessions |-> "about:blank"]
    /\ pending = [s \in Sessions |-> FALSE]
    /\ ended = [s \in Sessions |-> "no"]
    /\ session = [s \in Sessions |-> ScrapingSession(StartUrl, Goal(s), 0)]

NextPool ==
    \E s \in Sessions :
        \/ AcquirePage(s)
        \/ NewContext(s)
        \/ NewPage(s)
        \/ ConfigureStealth(s)
        \/ Goto(s)
        \/ Finalize(s)
        \/ ClosePage(s)

SpecPool == InitPool /\ [][NextPool]_vars

\* the same calls on an event loop that resumes a coroutine whose awaited
\* call has returned, raised or timed out, and a waiter of the semaphore
\* when a slot is free
SpecPoolFair == InitPool /\ [][NextPool]_vars /\ \A s \in Sessions : WF_pc(Resume(s))

\* scrape_page called for two sessions at once on one scraper, hence on
\* one LLMNavigationAgent, each session with max_actions = 1
InitConcurrent ==
    /\ InitExecutor
    /\ InitGenerator
    /\ max_concurrent_browsers = MaxBrowsers
    /\ semaphore = max_concurrent_browsers
    /\ contexts = 0
    /\ created = 0
    /\ conversation_history = <<>>
    /\ pc = [s \in Sessions |-> IF s \in {1, 2} THEN "start" ELSE "unused"]
    /\ page = [s \in Sessions |-> "none"]
    /\ page_url = [s \in Sessions |-> "about:blank"]
    /\ pending = [s \in Sessions |-> FALSE]
    /\ ended = [s \in Sessions |-> "no"]
    /\ session = [s \in Sessions |->
                    IF s \in {1, 2} THEN ScrapingSession(StartUrl, Goal(s), 1)
                    ELSE ScrapingSession(StartUrl, "", 0)]

SpecConcurrent == InitConcurrent /\ [][Next]_vars

\* analyze_page_and_plan_action called again and again on one agent, as in
\* the turns of the sessions of one scraper: the calls are counted in
\* current_action of session 1, which keeps the goal, the history lines of
\* the request, the reply and the action returned
MaxCalls == 12

AgentResponses ==
    {JsonOf(Action(t, DescPlain, EmptyDict, 90)) : t \in {"click", "error"}}
    \cup {[kind |-> "fault"], [kind |-> "text"]}
    \cup {[kind |-> "json", data |-> d] :
            d \in {Without(TheReply, "confidence"),
                   [TheReply EXCEPT !.action_type = <<"h","o","v","e","r">>],
                   [TheReply EXCEPT !.confidence = 150]}}

PlanAgain ==
    /\ session[1].current_action < MaxCalls
    /\ \E response \in AgentResponses :
        LET planned == AnalyzePageAndPlanAction(conversation_history, session[1].goal,
                                                response)
        IN  /\ conversation_history' = planned.history
            /\ session' = [session EXCEPT
                                ![1].current_action = NextTurn(@),
                                ![1].context = ContextHistory(conversation_history),
                                ![1].response = response,
                                ![1].action = planned.action]
    /\ UNCHANGED <<poolVars, pc, page, page_url, pending, ended, execVars, genVars>>

InitAgent == InitExecutor /\ InitIdleScraper /\ InitGenerator

NextAgent == PlanAgain

SpecAgent == InitAgent /\ [][NextAgent]_vars

(***************************************************************************)
(* Properties of execute_action (SpecExec)                                 *)
(***************************************************************************)
\* C1: an action whose confidence is below 0.30, of any kind and with any
\* parameters, is answered with a failure, without any browser operation
\* and without generating candidates.
C1_LowConfidenceDoesNothing ==
    (ePc = "done" /\ eAction.confidence < 30) =>
        /\ eResult.returned
        /\ ~eResult.success
        /\ eOps = {}
        /\ eGenerated = NoStrategies
        /\ eAttempts = <<>>
        /\ eClicks = 0

C1_Witness ==
    /\ ePc = "done"
    /\ eAction.action_type = "click"
    /\ eAction.confidence = 29
    /\ "selector" \in DOMAIN eAction.parameters
    /\ ~eResult.success

\* C4 as stated: execute_action never lets an exception out, and any fault
\* raised during the call ends in a failure whose message carries the text
\* of the fault.
C4_EveryFaultReported ==
    ePc = "done" =>
        /\ ~ePropagated
        /\ eResult.returned
        /\ eFaults # {} =>
              /\ ~eResult.success
              /\ \E fault \in eFaults : fault \in Range(eResult.message)

\* C4: execute_action never lets an exception out and always returns a
\* result. A fault of the page operation of Scroll, Navigate or Extract, a
\* fault of Wait other than a timeout, and an exception leaving candidate
\* generation end in a failure whose message carries the text of the fault;
\* a timeout of Wait ends in a failure naming the kind of wait; the faults
\* met while trying one candidate of Click or Type and the faults of the
\* parsing helper are absorbed.
C4_ExecuteNeverRaises ==
    ePc = "done" =>
        /\ ~ePropagated
        /\ eResult.returned
        /\ (eAction.action_type \in {"scroll", "navigate", "extract"} /\ eFaults # {}) =>
              /\ ~eResult.success
              /\ \E fault \in eFaults : fault \in Range(eResult.message)
        /\ (eAction.action_type = "wait" /\ eFaults # {}) =>
              /\ ~eResult.success
              /\ \/ eFaults = {TimeoutText} /\ eResult.message[1] = "Wait timeout: "
                 \/ \E fault \in eFaults : fault \in Range(eResult.message)
        /\ (/\ eAction.action_type \in {"click", "type"}
            /\ ~eAction.target_description.is_str
            /\ "generate_selectors" \in eOps) =>
              /\ ~eResult.success
              /\ eResult.message[1] = "Execution error: "
              /\ eResult.message[2] \in eFaults

C4_Witness ==
    /\ ePc = "done"
    /\ eAction.action_type = "click"
    /\ ~eAction.target_description.is_str
    /\ "generate_selectors" \in eOps
    /\ eResult.returned
    /\ eResult.message[1] = "Execution error: "

\* the place a generated strategy takes when the list is ordered by
\* decreasing confidence, equal confidences in the order of generation
Place(strategies, k) ==
    1 + Cardinality({m \in 1 .. Len(strategies) :
                        \/ strategies[m].confidence > strategies[k].confidence
                        \/ /\ strategies[m].confidence = strategies[k].confidence
                           /\ m < k})

\* C6: Click and Type try their candidates by decreasing confidence, equal
\* confidences in the order of generation; a selector given in the
\* parameters is a candidate of confidence 1.0 and category explicit and is
\* tried first.
C6_AttemptsByConfidence ==
    eAction.action_type \in {"click", "type"} =>
        /\ Len(eAttempts) <= Len(eGenerated)
        /\ \A k \in 1 .. Len(eGenerated) :
              LET i == Place(eGenerated, k)
              IN  i <= Len(eAttempts) =>
                      /\ eAttempts[i].selector = eGenerated[k].selector
                      /\ eAttempts[i].confidence = eGenerated[k].confidence
                      /\ eAttempts[i].category = eGenerated[k].category
        /\ \A i, j \in 1 .. Len(eAttempts) :
              i < j => eAttempts[i].confidence >= eAttempts[j].confidence
        /\ ("selector" \in DOMAIN eAction.parameters /\ eAttempts # <<>>) =>
              /\ eAttempts[1].selector = eAction.parameters["selector"]
              /\ eAttempts[1].confidence = 100
              /\ eAttempts[1].category = "explicit"

C6_Witness ==
    /\ eAction.action_type = "type"
    /\ "selector" \in DOMAIN eAction.parameters
    /\ Len(eAttempts) >= 4
    /\ eAttempts[1].category = "explicit"
    /\ \E i \in 2 .. Len(eAttempts) - 1 :
          /\ eAttempts[i].confidence = eAttempts[i + 1].confidence
          /\ eAttempts[i].selector # eAttempts[i + 1].selector
    /\ eAttempts[2].confidence > eAttempts[Len(eAttempts)].confidence

\* C15: within one execute_action call no two candidates have the same
\* selector, so no selector is tried twice.
C15_NoSelectorTwice ==
    /\ \A i, j \in 1 .. Len(eStrategies) :
            i # j => eStrategies[i].selector # eStrategies[j].selector
    /\ \A i, j \in 1 .. Len(eAttempts) :
            i # j => eAttempts[i].selector # eAttempts[j].selector

\* the action that returned is a scroll whose direction is not one of the
\* four, compared the way the code compares them (lower-cased)
UnknownDirection ==
    /\ ePc = "done"
    /\ eAction.action_type = "scroll"
    /\ "direction" \in DOMAIN eAction.parameters
    /\ LET direction == eAction.parameters.direction
       IN  \/ ~direction.is_str
           \/ Lower(direction.text) \notin
                 {<<"d","o","w","n">>, <<"u","p">>, <<"t","o","_","b","o","t","t","o","m">>,
                  <<"t","o","_","t","o","p">>}

\* C16 as stated: an accepted scroll whose direction is not one of down, up,
\* to_bottom, to_top fails with the message naming that direction, without a
\* viewport scroll and without the settle wait.
C16_InvalidDirectionNamed ==
    (UnknownDirection /\ eAction.confidence >= 30) =>
        /\ ~eResult.success
        /\ eResult.message[1] = "Invalid scroll direction: "
        /\ eOps \cap {"evaluate", "sleep"} = {}

\* C16 amended: a scroll whose direction is not one of the four fails without
\* a viewport scroll and without the settle wait; when the action passed the
\* confidence gate and the direction is text, the message names the direction,
\* and when the direction is not text the message is the "Scroll failed: " one.
C16_InvalidDirectionFails ==
    UnknownDirection =>
        /\ ~eResult.success
        /\ eOps \cap {"evaluate", "sleep"} = {}
        /\ eAction.confidence >= 30 =>
                LET direction == eAction.parameters.direction
                IN  IF direction.is_str
                    THEN eResult.message =
                            <<"Invalid scroll direction: ", Join(direction.text)>>
                    ELSE eResult.message[1] = "Scroll failed: "

C16_Witness ==
    /\ UnknownDirection
    /\ eAction.confidence = 30
    /\ eAction.parameters.direction = Sideways
    /\ eResult.message = <<"Invalid scroll direction: ", "sideways">>

\* C17: a navigate action without a url, absent or empty, fails without
\* page.goto and without the wait for the load state.
C17_NoUrlNoNavigation ==
    (/\ ePc = "done"
     /\ eAction.action_type = "navigate"
     /\ ("url" \in DOMAIN eAction.parameters => eAction.parameters.url = "")) =>
        /\ ~eResult.success
        /\ eOps \cap {"goto", "wait_for_load_state"} = {}

C17_Witness ==
    /\ ePc = "done"
    /\ eAction.action_type = "navigate"
    /\ eAction.confidence = 30
    /\ eAction.parameters = EmptyDict
    /\ eResult.message = <<"No URL specified for navigation">>

\* execute_action returned from a click
ClickReturned == ePc = "done" /\ eAction.action_type = "click"

\* the result carries the failure analysis of the click
HasFailureInfo == {"strategies_tried", "strategies"} \subseteq DOMAIN eResult.data

\* the failure analysis counts the generated strategies and lists the first
\* five of the ranked ones, in their order
FailureInfoAsRanked ==
    /\ eResult.data.strategies_tried = Len(eGenerated)
    /\ Len(eResult.data.strategies) <= 5
    /\ Len(eResult.data.strategies) <= Len(eStrategies)
    /\ Len(eStrategies) <= 5 => Len(eResult.data.strategies) = Len(eStrategies)
    /\ \A i \in 1 .. Len(eResult.data.strategies) :
            /\ eResult.data.strategies[i] = eStrategies[i]
            /\ i > 1 => eResult.data.strategies[i - 1].confidence
                            >= eResult.data.strategies[i].confidence

\* C19 as stated: a click whose strategies all failed returns the failure
\* analysis, and a click result carries the failure analysis exactly when it
\* did not succeed.
C19_FailureInfoIffFailed ==
    ClickReturned =>
        /\ HasFailureInfo <=> ~eResult.success
        /\ HasFailureInfo => FailureInfoAsRanked

\* C19 amended: a click that passed the confidence gate and has a text
\* description carries the failure analysis exactly when it did not succeed,
\* and then every strategy was tried; the analysis counts the generated
\* strategies and lists at most five of them, the top-ranked ones in rank
\* order.  A click that was rejected at the gate or whose generator raised
\* fails without the analysis.
C19_FailureInfoOfTriedClick ==
    ClickReturned =>
        /\ HasFailureInfo => (~eResult.success /\ FailureInfoAsRanked)
        /\ HasFailureInfo => Len(eAttempts) = Len(eStrategies)
        /\ (eAction.confidence >= 30 /\ eAction.target_description.is_str) =>
                (HasFailureInfo <=> ~eResult.success)
        /\ (eAction.confidence < 30 \/ ~eAction.target_description.is_str) =>
                (~eResult.success /\ ~HasFailureInfo)

C19_Witness ==
    /\ ClickReturned
    /\ ~eResult.success
    /\ HasFailureInfo
    /\ Len(eGenerated) > 5
    /\ eResult.data.strategies_tried = Len(eGenerated)
    /\ Len(eResult.data.strategies) = 5
    /\ Len(eAttempts) = Len(eGenerated)

\* C21: one execute_action call for a click performs at most one click; a
\* click that completed ends the call with a success that names the selector,
\* category and confidence of the strategy clicked, whatever the parameters,
\* wait_after included.
C21_AtMostOneClick ==
    eAction.action_type = "click" =>
        /\ eClicks <= 1
        /\ eClicks = 1 =>
                /\ ePc = "done"
                /\ eResult.success
                /\ eResult.data.selector = eAttempts[Len(eAttempts)].selector
                /\ eResult.data.strategy = eAttempts[Len(eAttempts)].category
                /\ eResult.data.confidence = eAttempts[Len(eAttempts)].confidence

\* C22: a click never scrolls to or clicks an element it saw as not visible or
\* not enabled, with or without force: the attempt ends after the two
\* readings and the loop goes on with the next strategy.
C22_NoClickOnHiddenOrDisabled ==
    (/\ eAction.action_type = "click"
     /\ eElement.checked
     /\ ~eElement.is_visible \/ ~eElement.is_enabled) =>
        /\ ~eElement.acted
        /\ eIndex = Len(eAttempts) + 1
        /\ ePc = "done" => (~eResult.success /\ eIndex > Len(eStrategies))

C22_Witness ==
    /\ ePc = "click"
    /\ "force" \in DOMAIN eAction.parameters
    /\ eAction.parameters.force
    /\ eElement.checked
    /\ eElement.is_visible
    /\ ~eElement.is_enabled
    /\ ~eElement.acted
    /\ eOps \cap {"element_info", "scroll_into_view_if_needed", "click"} = {}
    /\ eClicks = 0
    /\ eIndex <= Len(eStrategies)

\* C23: a timeout or an exception on one strategy of a click does not end the
\* loop: every attempt that did not return the success is followed by the
\* next strategy in rank order, and the failure is returned only when every
\* strategy was attempted and none of the attempts returned the success.
C23_FaultsDoNotEndTheChain ==
    (eAction.action_type = "click" /\ eAction.confidence >= 30
        /\ eAction.target_description.is_str) =>
        /\ ePc = "click" => eIndex = Len(eAttempts) + 1
        /\ \A i \in 1 .. Len(eAttempts) :
                /\ eAttempts[i].selector = eStrategies[i].selector
                /\ eAttempts[i].confidence = eStrategies[i].confidence
        /\ (ePc = "done" /\ ~eResult.success) => Len(eAttempts) = Len(eStrategies)
        /\ (ePc = "done" /\ eResult.success) =>
                (Len(eAttempts) >= 1 /\ eElement.acted /\ eClicks >= 1)

C23_Witness ==
    /\ eAction.action_type = "click"
    /\ ePc = "done"
    /\ ~eResult.success
    /\ {"Timeout exceeded", "Target closed"} \subseteq eFaults
    /\ Len(eStrategies) >= 3
    /\ Len(eAttempts) = Len(eStrategies)

\* C24: the i-th strategy a click attempts, i counted from 0, is waited for
\* max(2000, 8000 - 1000 * i) milliseconds: 8000 for the first, never more
\* than for the one before, 2000 from the seventh on and never less.
C24_LocateTimeouts ==
    eAction.action_type = "click" =>
        \A n \in 1 .. Len(eAttempts) :
            LET i == n - 1
                timeout == eAttempts[n].timeout
            IN  /\ timeout = (IF 8000 - 1000 * i > 2000 THEN 8000 - 1000 * i ELSE 2000)
                /\ i = 0 => timeout = 8000
                /\ i > 0 => timeout <= eAttempts[n - 1].timeout
                /\ i >= 6 => timeout = 2000
                /\ timeout >= 2000

C24_Witness ==
    /\ eAction.action_type = "click"
    /\ Len(eAttempts) >= 8
    /\ eAttempts[1].timeout = 8000
    /\ eAttempts[6].timeout = 3000
    /\ eAttempts[7].timeout = 2000
    /\ eAttempts[8].timeout = 2000

(***************************************************************************)
(* Properties of the generator (SpecGen)                                   *)
(***************************************************************************)
StrategiesOf(call) == IF call.called THEN Range(call.strategies) ELSE {}

ButtonWithoutDecomposition(call) ==
    /\ call.called
    /\ call.description.is_str
    /\ ~call.llm.ok
    /\ Contains(call.description.text, <<"b","u","t","t","o","n">>)

\* the words of the description, cleaned of surrounding punctuation, that
\* start with an upper-case letter and are longer than 2 characters
CapitalisedTokens(description) ==
    LET words == Split(description.text)
    IN  {w \in {Strip(words[i]) : i \in 1..Len(words)} : Len(w) > 2 /\ IsUpper(w[1])}

FallbackButtonFor(call, token) ==
    /\ SelectorStrategy("button:has-text('" \o Join(token) \o "')", 60, "fallback_button")
            \in StrategiesOf(call)
    /\ SelectorStrategy("*:has-text('" \o Join(token) \o "'):not(body):not(html)", 40,
                        "fallback_generic") \in StrategiesOf(call)

\* C18: without a structural decomposition, a description containing "button"
\* gets, for each of its words that starts with an upper-case letter and is
\* longer than 2 characters, a fallback_button strategy at 0.60 built from that
\* word and a catch-all strategy at 0.40; "Submit form button" gets the
\* fallback_button strategy built from "Submit".
C18_FallbackButtons ==
    /\ \A call \in {gFirst, gSecond} :
            ButtonWithoutDecomposition(call) =>
                \A token \in CapitalisedTokens(call.description) :
                    FallbackButtonFor(call, token)
    /\ \A call \in {gFirst, gSecond} :
            (call.called /\ call.description = DescSubmit /\ ~call.llm.ok) =>
                SelectorStrategy("button:has-text('Submit')", 60, "fallback_button")
                    \in StrategiesOf(call)

C18_Witness ==
    /\ ButtonWithoutDecomposition(gFirst)
    /\ gFirst.description = DescSubmit
    /\ FallbackButtonFor(gFirst, <<"S","u","b","m","i","t">>)
    /\ ButtonWithoutDecomposition(gSecond)
    /\ gSecond.description = DescSave
    /\ FallbackButtonFor(gSecond, <<"S","a","v","e">>)
    /\ FallbackButtonFor(gSecond, <<"D","r","a","f","t">>)
    /\ ~FallbackButtonFor(gSecond, <<"O","K">>)

\* C25: when the call of the parsing helper fails, the strategies are the
\* explicit one, if a selector was given, and the rule-based ones at 0.60 and
\* 0.40, and no semantic strategy.
C25_HelperFailureRuleBasedOnly ==
    \A call \in {gFirst, gSecond} :
        (call.called /\ ~call.llm.ok) =>
            \A x \in StrategiesOf(call) :
                /\ x.category \in {"explicit", "fallback_tab", "fallback_button",
                                   "fallback_link", "fallback_generic"}
                /\ x.confidence \in {100, 60, 40}

(***************************************************************************)
(* Properties of scrape_page (Spec)                                        *)
(***************************************************************************)
\* C2: in every state of a session current_action is at most max_actions,
\* and the total_actions of the returned results is at most max_actions.
C2_TurnsWithinCeiling ==
    \A s \in Sessions :
        /\ session[s].current_action <= session[s].max_actions
        /\ "total_actions" \in DOMAIN session[s].snapshot =>
              session[s].snapshot.total_actions <= session[s].max_actions

C2_Witness ==
    /\ pc[1] = "done"
    /\ ended[1] = "returned"
    /\ session[1].max_actions = 2
    /\ Len(session[1].actions_taken) = 2
    /\ "total_actions" \in DOMAIN session[1].snapshot
    /\ session[1].snapshot.total_actions = session[1].max_actions

\* C3: scrape_page never raises to its caller: whatever fails during the
\* call, the getting, the setting up and the closing of the page included,
\* the call returns the results, with a session_failure record in errors.
C3_ScrapePageNeverRaises ==
    \A s \in Sessions :
        pc[s] = "done" =>
            /\ ended[s] = "returned"
            /\ "total_actions" \notin DOMAIN session[s].snapshot =>
                  /\ session[s].errors # <<>>
                  /\ session[s].errors[Len(session[s].errors)].type = "session_failure"

Interactive == {"click", "type", "scroll", "wait", "navigate"}

\* turn 1 was an interactive action that failed and turn 2 decided Extract
FailedThenExtract(s) ==
    /\ Len(session[s].actions_taken) >= 2
    /\ session[s].actions_taken[1].action_type \in Interactive
    /\ session[s].errors # <<>>
    /\ session[s].errors[1].type = "execution_record"
    /\ session[s].actions_taken[2].action_type = "extract"

\* C5: when turn 1 is an interactive action that fails and turn 2 is an
\* Extract decision, the results the session returns hold extracted content
\* and exactly one entry in errors.
C5_FailureDoesNotEndSession ==
    \A s \in Sessions :
        (pc[s] \in {"close", "done"} /\ FailedThenExtract(s)) =>
            /\ session[s].extracted_content # {}
            /\ Len(session[s].errors) = 1
            /\ session[s].current_action = 2
            /\ "total_actions" \in DOMAIN session[s].snapshot

C5_Witness ==
    /\ pc[1] = "done"
    /\ ended[1] = "returned"
    /\ FailedThenExtract(1)
    /\ session[1].actions_taken[1].action_type = "click"
    /\ session[1].actions_taken[1].confidence = 90
    /\ "extraction_metadata" \in session[1].extracted_content

LastOf(list) == list[Len(list)]

\* the session has left its loop, or was taken out of it by a failure
LoopEnded(s) ==
    \/ pc[s] = "final"
    \/ "total_actions" \in DOMAIN session[s].snapshot
    \/ session[s].errors # <<>> /\ LastOf(session[s].errors).type = "session_failure"

LastDecision(s) ==
    IF session[s].actions_taken = <<>> THEN "none"
    ELSE LastOf(session[s].actions_taken).action_type

\* C10 as stated: the loop ends only when current_action has reached
\* max_actions, when an Extract action has succeeded, or when the decision
\* service has reported an Error action.
C10_ThreeWaysOut ==
    \A s \in Sessions :
        LoopEnded(s) =>
            \/ session[s].current_action = session[s].max_actions
            \/ /\ LastDecision(s) = "extract"
               /\ "extraction_error" \notin session[s].extracted_content
            \/ LastDecision(s) = "error"

\* C10: the loop ends only when current_action has reached max_actions,
\* when an Extract action has been decided, its extraction succeeding or
\* not, when the decision service has reported an Error action, or when a
\* failure of the page navigation or of the page analysis has been caught
\* by scrape_page.
C10_WaysOut ==
    \A s \in Sessions :
        LoopEnded(s) =>
            \/ session[s].current_action = session[s].max_actions
            \/ LastDecision(s) = "extract"
            \/ LastDecision(s) = "error"
            \/ /\ session[s].errors # <<>>
               /\ LastOf(session[s].errors).type = "session_failure"
               /\ "total_actions" \notin DOMAIN session[s].snapshot

C10_Witness ==
    /\ pc[1] = "final"
    /\ session[1].max_actions = 2
    /\ session[1].current_action = 1
    /\ LastDecision(1) = "extract"
    /\ "extraction_error" \in session[1].extracted_content

(***************************************************************************)
(* Properties of the pool under concurrent sessions (SpecPool)             *)
(***************************************************************************)
\* the sessions inside "async with self._context_semaphore"
Holders == {s \in Sessions : pc[s] \notin {"unused", "start", "done"}}

OpenPages == {s \in Sessions : page[s] = "open"}

\* C8: the pages held at one time are never more than
\* max_concurrent_browsers, and a session waiting for a slot holds no page.
C8_PagesWithinLimit ==
    /\ Cardinality(OpenPages) <= max_concurrent_browsers
    /\ Cardinality(Holders) <= max_concurrent_browsers
    /\ OpenPages \subseteq Holders
    /\ \A s \in Sessions : pc[s] = "start" => page[s] = "none"

C8_Witness ==
    /\ max_concurrent_browsers = 2
    /\ Cardinality(OpenPages) = 2
    /\ semaphore = 0
    /\ \E s \in Sessions : pc[s] = "start" /\ page[s] = "none"

\* C9: on every way out of get_page the slot is given back and the page
\* that was opened is closed; when all sessions have ended the free slots
\* are max_concurrent_browsers again.
C9_SlotsGivenBack ==
    /\ semaphore + Cardinality(Holders) = max_concurrent_browsers
    /\ \A s \in Sessions : pc[s] = "done" => page[s] \in {"none", "closed"}
    /\ (\A s \in Sessions : pc[s] = "done") => semaphore = max_concurrent_browsers

C9_Witness ==
    /\ \A s \in Sessions : pc[s] = "done"
    /\ semaphore = max_concurrent_browsers
    /\ \E s \in Sessions : ended[s] = "returned" /\ page[s] = "closed"
    /\ \E s \in Sessions : ended[s] = "raised" /\ page[s] = "closed"
    /\ \E s \in Sessions : ended[s] = "raised" /\ page[s] = "none"

(***************************************************************************)
(* Properties of scrape_page, continued (Spec)                             *)
(***************************************************************************)
ExtractDispatched(s) ==
    \E i \in 1 .. Len(session[s].actions_taken) :
        session[s].actions_taken[i].action_type = "extract"

\* what _extract_final_content writes
WrittenByFinalPass(s) ==
    session[s].extracted_content
        \cap {"final_title", "final_url", "final_text_preview", "final_extraction_error"}

\* what _extract_content writes
WrittenByExtract(s) ==
    session[s].extracted_content
        \cap {"title", "text_content", "extraction_metadata", "extraction_error"}

\* the closing fields are set: the session left by its return, not by the
\* except clause
Completed(s) == "total_actions" \in DOMAIN session[s].snapshot

\* C11: when a session ends without a session failure, the final extraction
\* has run if no Extract action was dispatched and has not run if one was;
\* extracted_content is written by one extraction only, and never written
\* again once it holds something; with max_actions = 1 and a decision that
\* is neither Extract nor Error the loop ends after that turn and the final
\* extraction runs.
C11_OneExtractionPass ==
    /\ [](\A s \in Sessions :
            /\ Completed(s) =>
                  IF ExtractDispatched(s)
                  THEN WrittenByFinalPass(s) = {} /\ WrittenByExtract(s) # {}
                  ELSE WrittenByFinalPass(s) # {} /\ WrittenByExtract(s) = {}
            /\ (/\ Completed(s)
                /\ session[s].max_actions = 1
                /\ Len(session[s].actions_taken) = 1
                /\ session[s].actions_taken[1].action_type \notin {"extract", "error"}) =>
                  /\ session[s].current_action = 1
                  /\ WrittenByFinalPass(s) # {})
    /\ [][\A s \in Sessions :
            session'[s].extracted_content # session[s].extracted_content =>
                /\ session[s].extracted_content = {}
                /\ ~Completed(s)]_vars

C11_Witness ==
    /\ pc[1] = "done"
    /\ ended[1] = "returned"
    /\ session[1].max_actions = 1
    /\ Len(session[1].actions_taken) = 1
    /\ session[1].actions_taken[1].action_type = "scroll"
    /\ session[1].errors = <<>>
    /\ "final_title" \in session[1].extracted_content

Unusable(response) ==
    \/ response.kind \in {"fault", "text"}
    \/ /\ response.kind = "json"
       /\ IF ~({"action_type", "target_description", "parameters", "confidence", "reasoning"}
                    \subseteq DOMAIN response.data)
          THEN TRUE
          ELSE \/ Join(Lower(response.data.action_type))
                      \notin {"click", "type", "scroll", "wait", "navigate", "extract", "error"}
               \/ response.data.confidence < 0
               \/ response.data.confidence > 100

\* C13: when the decision service fails or its response is not a valid
\* action (not JSON, a field missing, an unknown action type, a confidence
\* outside [0, 1]), the decision is an error action of confidence 0, no
\* exception is recorded, the reasoning of that action is the last entry of
\* errors, and the session takes no further turn.
C13_DecisionFailureEndsSession ==
    \A s \in Sessions :
        Unusable(session[s].response) =>
            /\ session[s].action.action_type = "error"
            /\ session[s].action.confidence = 0
            /\ LastOf(session[s].actions_taken).action_type = "error"
            /\ LastOf(session[s].actions_taken).confidence = 0
            /\ LastOf(session[s].errors) =
                    [type |-> "reasoning", reasoning |-> session[s].action.reasoning]
            /\ pc[s] \in {"final", "close", "done"}
            /\ session[s].current_action = Len(session[s].actions_taken)

C13_Witness ==
    /\ pc[1] = "done"
    /\ ended[1] = "returned"
    /\ session[1].max_actions = 2
    /\ session[1].current_action = 1
    /\ session[1].response.kind = "json"
    /\ "confidence" \in DOMAIN session[1].response.data
    /\ session[1].response.data.confidence = 150
    /\ Len(session[1].errors) = 1

(***************************************************************************)
(* Properties of sessions sharing one scraper (SpecConcurrent)             *)
(***************************************************************************)
\* C14: the history handed to the decision service for a turn of a session
\* holds only actions decided in that session: nothing but the pool is
\* shared between concurrent sessions.
C14_HistoryOfOwnSession ==
    \A s \in Sessions :
        \A i \in 1 .. Len(session[s].context) :
            session[s].context[i].goal = session[s].goal

(***************************************************************************)
(* Properties of the logs of a session (Spec)                              *)
(***************************************************************************)
\* log is kept as it was or extended at the end
Extended(before, after) ==
    /\ Len(before) <= Len(after)
    /\ SubSeq(after, 1, Len(before)) = before

\* C20: every step of a session leaves actions_taken, navigation_path and
\* errors unchanged or extended at the end, and the record a turn appends to
\* actions_taken stands at the place of that turn's number.
C20_LogsAppendOnly ==
    [][\A s \in Sessions :
        /\ Extended(session[s].actions_taken, session'[s].actions_taken)
        /\ Extended(session[s].navigation_path, session'[s].navigation_path)
        /\ Extended(session[s].errors, session'[s].errors)
        /\ session'[s].actions_taken # session[s].actions_taken =>
                /\ Len(session'[s].actions_taken) = Len(session[s].actions_taken) + 1
                /\ Len(session'[s].actions_taken) = session'[s].current_action]_vars

C20_Witness ==
    \E s \in Sessions :
        /\ Len(session[s].actions_taken) = 2
        /\ Len(session[s].navigation_path) >= 2
        /\ Len(session[s].errors) >= 1

\* the decision of the latest turn is the last record of actions_taken
LatestDecisionRecorded(s) ==
    /\ session[s].actions_taken # <<>>
    /\ LastOf(session[s].actions_taken).action_type = session[s].action.action_type
    /\ LastOf(session[s].actions_taken).confidence = session[s].action.confidence

\* the call ended in the except clause of scrape_page during a turn
FailedInTurn(s) ==
    /\ session[s].current_action > 0
    /\ session[s].errors # <<>>
    /\ LastOf(session[s].errors).type = "session_failure"

\* C26 as stated: at every turn boundary and in every returned results the
\* number of records in actions_taken equals current_action, the last record
\* being the decision of the latest turn.
C26_RecordsEqualTurns ==
    \A s \in Sessions :
        (pc[s] = "loop" \/ ended[s] = "returned") =>
            /\ Len(session[s].actions_taken) = session[s].current_action
            /\ session[s].current_action > 0 => LatestDecisionRecorded(s)

\* C26 amended: every decision is recorded before it is dispatched: while it
\* is executed, at every turn boundary and in the results of a call that did
\* not fail, actions_taken has current_action records, the last being the
\* decision of the latest turn.  A turn whose page analysis raised was counted
\* and made no decision: the results returned then have one record less than
\* current_action.
C26_DecisionsRecorded ==
    \A s \in Sessions :
        /\ pc[s] \in {"loop", "execute", "final"} =>
                /\ Len(session[s].actions_taken) = session[s].current_action
                /\ session[s].current_action > 0 => LatestDecisionRecorded(s)
        /\ ended[s] = "returned" =>
                IF FailedInTurn(s)
                THEN Len(session[s].actions_taken) = session[s].current_action - 1
                ELSE /\ Len(session[s].actions_taken) = session[s].current_action
                     /\ session[s].current_action > 0 => LatestDecisionRecorded(s)

C26_Witness ==
    \E s \in Sessions :
        /\ ended[s] = "returned"
        /\ ~FailedInTurn(s)
        /\ session[s].current_action = 2
        /\ Len(session[s].actions_taken) = 2
        /\ session[s].actions_taken[1].action_type = "click"
        /\ session[s].actions_taken[2].action_type = "error"

\* C27: no two consecutive entries of navigation_path are equal, also when
\* the start url redirects or a failed action changed the url.
C27_NoRepeatedUrl ==
    \A s \in Sessions :
        \A i \in 1 .. Len(session[s].navigation_path) - 1 :
            session[s].navigation_path[i] # session[s].navigation_path[i + 1]

\* the step is the part of a turn that follows execute_action
AfterExecute(s) == pc[s] = "execute" /\ pc'[s] # "execute"

\* C28: after a successful action the turn applies the random delay, waits
\* for the content to load and then reads page.url, in this order, and
\* appends that url to navigation_path exactly when it differs from the url
\* of the page state analysed at the head of the turn.
C28_UrlAppendedWhenChanged ==
    [][\A s \in Sessions :
        (AfterExecute(s) /\ session'[s].errors = session[s].errors) =>
            /\ session'[s].steps =
                    <<"add_random_delay", "wait_for_content_loaded", "page.url">>
            /\ session'[s].navigation_path =
                    IF page_url'[s] # session[s].page_state.url
                    THEN Append(session[s].navigation_path, page_url'[s])
                    ELSE session[s].navigation_path]_vars

C28_Witness ==
    \E s \in Sessions :
        /\ pc[s] = "loop"
        /\ session[s].current_action = 1
        /\ session[s].errors = <<>>
        /\ session[s].steps = <<"add_random_delay", "wait_for_content_loaded", "page.url">>
        /\ Len(session[s].navigation_path) = 2
        /\ session[s].navigation_path[2] = page_url[s]
        /\ session[s].navigation_path[2] # session[s].page_state.url

\* C29: at every turn boundary the last entry of navigation_path is the url
\* the page is on.
C29_LastEntryIsPageUrl ==
    \A s \in Sessions :
        pc[s] = "loop" =>
            /\ session[s].navigation_path # <<>>
            /\ LastOf(session[s].navigation_path) = page_url[s]

\* C30: a failed action adds exactly one failure record to errors and leaves
\* navigation_path, extracted_content, selector_strategies_used,
\* actions_taken and current_action as they were; no delay is applied and the
\* call is back at the loop test.
C30_FailureOnlyRecorded ==
    [][\A s \in Sessions :
        (AfterExecute(s) /\ session'[s].errors # session[s].errors) =>
            /\ Len(session'[s].errors) = Len(session[s].errors) + 1
            /\ SubSeq(session'[s].errors, 1, Len(session[s].errors)) = session[s].errors
            /\ LastOf(session'[s].errors).type = "execution_record"
            /\ ~LastOf(session'[s].errors).success
            /\ LastOf(session'[s].errors).action_type = session[s].action.action_type
            /\ session'[s].navigation_path = session[s].navigation_path
            /\ session'[s].extracted_content = session[s].extracted_content
            /\ session'[s].selector_strategies_used = session[s].selector_strategies_used
            /\ session'[s].actions_taken = session[s].actions_taken
            /\ session'[s].current_action = session[s].current_action
            /\ session'[s].steps = <<>>
            /\ pc'[s] = "loop"]_vars

C30_Witness ==
    \E s \in Sessions :
        /\ pc[s] = "loop"
        /\ session[s].current_action = 1
        /\ session[s].max_actions = 2
        /\ Len(session[s].errors) = 1
        /\ session[s].errors[1].type = "execution_record"
        /\ session[s].steps = <<>>
        /\ Len(session[s].navigation_path) = 1
        /\ session[s].selector_strategies_used = <<>>

\* the step is the decision of a turn and what the turn does with an extract
\* or error action
AfterDecide(s) == pc[s] = "decide" /\ pc'[s] # "decide"

\* the turn of an action below 0.3 that went to execute_action: no page
\* operation, one rejection record, back at the loop test
Rejected(s) ==
    /\ ~session'[s].touched
    /\ page_url'[s] = page_url[s]
    /\ Len(session'[s].errors) = Len(session[s].errors) + 1
    /\ LastOf(session'[s].errors).type = "execution_record"
    /\ LastOf(session'[s].errors).message = "Action confidence too low: "
    /\ ~LastOf(session'[s].errors).success
    /\ session'[s].navigation_path = session[s].navigation_path
    /\ pc'[s] = "loop"

\* C31 as stated: every decided action other than an error action whose
\* confidence is below 0.30 is handed to execute_action, which performs no page
\* operation; the rejection is recorded in errors and the call is back at the
\* loop test.
C31_LowConfidenceRejected ==
    [][\A s \in Sessions :
        /\ (AfterDecide(s) /\ session'[s].action.action_type # "error"
                /\ session'[s].action.confidence < 30) =>
                /\ pc'[s] = "execute"
                /\ session'[s].extracted_content = session[s].extracted_content
        /\ (AfterExecute(s) /\ session[s].action.confidence < 30) => Rejected(s)]_vars

\* C31 amended: every decided action other than an error or extract action
\* whose confidence is below 0.30 is handed to execute_action, which performs
\* no page operation; the rejection is recorded in errors and the call is back
\* at the loop test.  An extract action is not handed to execute_action: it is
\* carried out whatever its confidence and ends the loop.
C31_LowConfidenceRejectedUnlessExtract ==
    [][\A s \in Sessions :
        /\ (AfterDecide(s) /\ session'[s].action.action_type \notin {"error", "extract"}
                /\ session'[s].action.confidence < 30) =>
                /\ pc'[s] = "execute"
                /\ session'[s].extracted_content = session[s].extracted_content
        /\ (AfterDecide(s) /\ session'[s].action.action_type = "extract") =>
                /\ pc'[s] = "final"
                /\ session'[s].extracted_content # {}
        /\ (AfterExecute(s) /\ session[s].action.confidence < 30) => Rejected(s)]_vars

C31_Witness ==
    \E s \in Sessions :
        /\ pc[s] = "loop"
        /\ session[s].current_action = 1
        /\ session[s].max_actions = 2
        /\ session[s].action.action_type = "navigate"
        /\ session[s].action.confidence = 20
        /\ Len(session[s].errors) = 1
        /\ session[s].errors[1].message = "Action confidence too low: "
        /\ ~session[s].touched

\* C32: an extract decision has its result merged into extracted_content and
\* its turn is the last of the session: afterwards no page is analysed, no
\* decision is asked for and no action is executed, also when current_action
\* is below max_actions.
C32_ExtractEndsSession ==
    /\ [](\A s \in Sessions :
            session[s].action.action_type = "extract" =>
                /\ pc[s] \notin {"loop", "decide", "execute"}
                /\ session[s].extracted_content # {}
                /\ LastOf(session[s].actions_taken).action_type = "extract")
    /\ [][\A s \in Sessions :
            /\ (AfterDecide(s) /\ session'[s].action.action_type = "extract") =>
                    \E content \in {{"title", "text_content", "extraction_metadata"},
                                     {"extraction_error"}} :
                        session'[s].extracted_content =
                            session[s].extracted_content \cup content
            /\ session[s].action.action_type = "extract" =>
                    /\ session'[s].actions_taken = session[s].actions_taken
                    /\ session'[s].current_action = session[s].current_action
                    /\ session'[s].action = session[s].action
                    /\ session'[s].errors = session[s].errors
                    /\ session'[s].navigation_path = session[s].navigation_path]_vars

C32_Witness ==
    \E s \in Sessions :
        /\ ended[s] = "returned"
        /\ session[s].max_actions = 2
        /\ session[s].current_action = 1
        /\ session[s].action.action_type = "extract"
        /\ Len(session[s].actions_taken) = 1
        /\ "extraction_metadata" \in session[s].extracted_content

(***************************************************************************)
(* Properties of _execute_type (SpecExec)                                  *)
(***************************************************************************)
TypeWithoutText ==
    /\ ePc # "idle"
    /\ eAction.action_type = "type"
    /\ ~BelowThreshold(eAction.confidence)
    /\ Get(eAction.parameters, "text", "") = ""

\* C33: a type action with no text, or with an empty text, returns a failure
\* without generating strategies, without the call of the parsing helper and
\* without an operation on the page.
C33_NoTextNoAttempt ==
    TypeWithoutText =>
        /\ ePc = "done"
        /\ eResult.returned
        /\ ~eResult.success
        /\ eResult.message = <<"No text specified for typing action">>
        /\ eOps = {}
        /\ eGenerated = <<>>
        /\ eStrategies = <<>>
        /\ eAttempts = <<>>
        /\ eFaults = {}

C33_Witness ==
    /\ TypeWithoutText
    /\ "text" \in DOMAIN eAction.parameters
    /\ "selector" \in DOMAIN eAction.parameters
    /\ ePc = "done"
    /\ ~eResult.success

\* C34: every strategy tried by a type action is one for an input: the
\* selector given in the parameters or a locator of an input, a textarea or
\* an editable element; the rule-based strategies for buttons, links, tabs
\* and any element are not tried.
C34_TypeTriesInputsOnly ==
    (eAction.action_type = "type" /\ ePc # "idle") =>
        \A i \in 1 .. Len(eAttempts) :
            eAttempts[i].category \notin
                {"fallback_button", "fallback_link", "fallback_tab", "fallback_generic"}

(***************************************************************************)
(* Termination of scrape_page (SpecFair)                                   *)
(***************************************************************************)
\* C35: a call of scrape_page that has its page comes to its end: the body
\* of the loop is entered at most max_actions times, one decision is
\* recorded per turn at most, and from every state with the page open the
\* call reaches its end with the page closed.
C35_SessionEnds ==
    /\ [](\A s \in Sessions :
            /\ session[s].current_action <= session[s].max_actions
            /\ Len(session[s].actions_taken) <= session[s].current_action
            /\ pc[s] \in {"decide", "execute"} => session[s].current_action >= 1)
    /\ \A s \in Sessions :
            (page[s] = "open") ~> (pc[s] = "done" /\ ended[s] # "no" /\ page[s] = "closed")

C35_Witness ==
    \E s \in Sessions :
        /\ pc[s] = "done"
        /\ ended[s] = "returned"
        /\ page[s] = "closed"
        /\ session[s].max_actions = 2
        /\ session[s].current_action = 2
        /\ Len(session[s].actions_taken) = 2
        /\ session[s].action.action_type \notin {"extract", "error"}

(***************************************************************************)
(* The waiters of the semaphore (SpecPoolFair)                             *)
(***************************************************************************)
\* C36: a session that waits at the entry of get_page is let in: it goes on
\* to have its page, unless the creation of the context or of the page
\* raises; while a session waits with no free slot another session holds
\* one; and all the sessions come to their end.
C36_WaiterIsLetIn ==
    /\ [](\A s \in Sessions :
            (pc[s] = "start" /\ semaphore = 0) =>
                \E t \in Sessions \ {s} : pc[t] \notin {"unused", "start", "done"})
    /\ \A s \in Sessions :
            (pc[s] = "start") ~> (page[s] = "open" \/ ended[s] = "raised")
    /\ <>(\A s \in Sessions : pc[s] = "done")

C36_Witness ==
    /\ max_concurrent_browsers = 1
    /\ \E s, t, u \in Sessions :
        /\ pc[s] = "done"
        /\ page[t] = "open"
        /\ pc[u] = "start"
        /\ semaphore = 0

(***************************************************************************)
(* The table of contexts of the pool (SpecPool)                            *)
(***************************************************************************)
\* C37: with the sessions entering get_page at once for one context id, one
\* browser context at most is created for it; self.contexts keeps one context
\* for the id, the one cleanup closes, so that a second context created is a
\* context lost.
C37_OneContextPerId == created <= 1

(***************************************************************************)
(* The history of the agent (SpecAgent)                                    *)
(***************************************************************************)
\* the entries of list from the place after the first skip of them
Dropping(list, skip) == [i \in 1 .. Len(list) - skip |-> list[skip + i]]

\* C38: the history of the agent has 10 entries at most; an entry is added
\* at the end and, past 10, the oldest entries are dropped; a request holds
\* the 3 latest entries, or all of fewer, in the order of their decisions.
C38_HistoryBounded ==
    /\ [](Len(conversation_history) <= 10)
    /\ [][LET before == conversation_history
              after == conversation_history'
              added == Append(before, after[Len(after)])
              request == session'[1].context
          IN  /\ after # before =>
                    /\ Len(after) = Min(Len(before) + 1, 10)
                    /\ after = Dropping(added, Len(added) - Len(after))
              /\ Len(request) = Min(Len(before), 3)
              /\ request = Dropping(before, Len(before) - Len(request))]_vars

C38_Witness ==
    /\ session[1].current_action = 12
    /\ Len(conversation_history) = 10
    /\ Len(session[1].context) = 3
    /\ \A i \in 1 .. 10 :
            conversation_history[i].action[1] =
                IF i = 7 THEN "error" ELSE "click"
    /\ session[1].context =
            <<conversation_history[7], conversation_history[8], conversation_history[9]>>

\* the reply of the decision service was parsed into an action
ValidReply(response) ==
    /\ response.kind = "json"
    /\ RequiredFields \subseteq DOMAIN response.data
    /\ Join(Lower(response.data.action_type)) \in ActionTypes
    /\ response.data.confidence \in 0 .. 100

\* C39: a call that returns the action made for a failed query or a reply
\* that was not accepted leaves the history as it was; the history changes
\* only with a reply that was parsed into an action.
C39_FailedDecisionNotRecorded ==
    [][LET returned == session'[1].action
           reply == session'[1].response
       IN  /\ (returned.action_type = "error" /\ returned.reasoning = "Error: ") =>
                    conversation_history' = conversation_history
           /\ ~ValidReply(reply) =>
                    /\ returned.action_type = "error"
                    /\ returned.reasoning = "Error: "
                    /\ conversation_history' = conversation_history
           /\ conversation_history' # conversation_history =>
                    /\ ValidReply(reply)
                    /\ returned.action_type = Join(Lower(reply.data.action_type))]_vars

C39_Witness ==
    /\ session[1].current_action = 3
    /\ Len(conversation_history) = 2
    /\ session[1].response.kind = "text"
    /\ session[1].action.reasoning = "Error: "
    /\ session[1].context = conversation_history
    /\ conversation_history[2].action[1] = "error"

====
